---------------------------- MODULE Spec2Model ----------------------------
(***************************************************************************)
(* Meal planner of scherbringFamilyRecipe: MealPlannerService              *)
(* (backend/app/services/planner.py) over the recipe and meal-plan         *)
(* containers, with the process-wide `random` generator it seeds and       *)
(* draws from.                                                             *)
(*                                                                         *)
(* Dates are day numbers; day 0 is a Monday, so date.weekday() is d % 7    *)
(* (Monday = 0 ... Sunday = 6).  Texts are sequences of one-character      *)
(* strings, so that str.lower(), " ".join and the `in` substring test are  *)
(* computed, not assumed.                                                  *)
(***************************************************************************)
EXTENDS Integers, Sequences, FiniteSets, TLC

(***************************************************************************)
(* Bounds of the model                                                     *)
(***************************************************************************)
\* catalogs are the first 0..MaxCatalog documents of Shelf
MaxCatalog == 6
\* plan histories are the first 0..MaxPlans documents of PlanShelf, and a
\* plan is saved only while at most MaxPlans are stored
MaxPlans == 1
\* seed strings are numbered 1..MaxSeed
MaxSeed == 2
\* a returned call is issued again at most MaxRepeats times
MaxRepeats == 1
\* requests handled by the process at the same time
NumCallers == 2
\* the generator's state before the first call is one of 0..MaxInitRng
MaxInitRng == 7
\* at most MaxIssued documents are created (uuid4 ids n1, n2, ...)
MaxIssued == 2
\* the plans that are exported have 0..MaxEntries entries
MaxEntries == 2
\* the lists handed to the AI consolidator have 0..MaxIngredients texts
MaxIngredients == 2
\* the lists of ingredient texts whose grouping keys are compared have
\* 1..MaxMentions texts
MaxMentions == 2

(***************************************************************************)
(* Python values                                                           *)
(***************************************************************************)
\* None of an Optional[str] (recipe_id, protein_type, notes)
None == "None"
\* None of an Optional[int] (cook_time_min, max_cook_time_min), of seed and
\* of an Optional[datetime] (last_cooked_at, a day number at midnight)
NoneInt == -1
\* bool(x) of an Optional[int]: None and 0 are falsy
TruthyInt(x) == x # NoneInt /\ x # 0
\* bool(x) of an Optional[str]: None and "" are falsy
TruthyStr(x) == x # None /\ x # ""

UpperChars == <<"A","B","C","D","E","F","G","H","I","J","K","L","M",
                "N","O","P","Q","R","S","T","U","V","W","X","Y","Z">>
LowerChars == <<"a","b","c","d","e","f","g","h","i","j","k","l","m",
                "n","o","p","q","r","s","t","u","v","w","x","y","z">>

\* str.lower() on one character
LowerChar(ch) ==
    IF \E i \in 1..Len(UpperChars) : UpperChars[i] = ch
    THEN LowerChars[CHOOSE i \in 1..Len(UpperChars) : UpperChars[i] = ch]
    ELSE ch

\* str.lower()
Lower(s) == [i \in 1..Len(s) |-> LowerChar(s[i])]

\* needle in hay (substring test of str)
Contains(hay, needle) ==
    \E i \in 0..(Len(hay) - Len(needle)) :
        SubSeq(hay, i + 1, i + Len(needle)) = needle

\* sep.join(texts)
RECURSIVE Join(_, _)
Join(texts, sep) ==
    IF Len(texts) = 0 THEN <<>>
    ELSE IF Len(texts) = 1 THEN texts[1]
    ELSE texts[1] \o sep \o Join(Tail(texts), sep)

DigitChars == <<"0","1","2","3","4","5","6","7","8","9">>

\* the one-character string written for the code point U+00BD (one half)
HalfSign == "{1/2}"

\* ord(ch) of the characters the model uses, which orders str comparison
CharOrd(ch) ==
    IF ch = " " THEN 32
    ELSE IF ch = "(" THEN 40
    ELSE IF ch = ")" THEN 41
    ELSE IF ch = "/" THEN 47
    ELSE IF \E i \in 1..Len(DigitChars) : DigitChars[i] = ch
    THEN 47 + (CHOOSE i \in 1..Len(DigitChars) : DigitChars[i] = ch)
    ELSE IF \E i \in 1..Len(UpperChars) : UpperChars[i] = ch
    THEN 64 + (CHOOSE i \in 1..Len(UpperChars) : UpperChars[i] = ch)
    ELSE IF \E i \in 1..Len(LowerChars) : LowerChars[i] = ch
    THEN 96 + (CHOOSE i \in 1..Len(LowerChars) : LowerChars[i] = ch)
    ELSE 189

\* a < b on str
RECURSIVE StrLess(_, _)
StrLess(a, b) ==
    IF Len(b) = 0 THEN FALSE
    ELSE IF Len(a) = 0 THEN TRUE
    ELSE IF CharOrd(a[1]) # CharOrd(b[1]) THEN CharOrd(a[1]) < CharOrd(b[1])
    ELSE StrLess(Tail(a), Tail(b))

Range(s) == {s[i] : i \in 1..Len(s)}

Min(a, b) == IF a < b THEN a ELSE b

\* F(e) with e computed once: the variable of a set constructor holds the
\* value of e, not the expression
Strictly(F(_), e) == CHOOSE r \in { F(v) : v \in {e} } : TRUE

\* the next statement F applied to the text a statement has produced
Then(text, F(_)) == Strictly(F, text \o <<>>)

(***************************************************************************)
(* Documents                                                               *)
(***************************************************************************)
\* a legacy plain-string ingredient (RecipeBase.ingredients holds
\* Union[Ingredient, str]; a str stays a str)
StrIngredient(text) ==
    [structured |-> FALSE, text |-> text, includeInShoppingList |-> TRUE]

\* an Ingredient object {text, includeInShoppingList}
Ingredient(text, include) ==
    [structured |-> TRUE, text |-> text, includeInShoppingList |-> include]

\* recipe documents the containers are filled from, in the order the
\* container returns them (not sorted by title)
Shelf ==
    << [id |-> "r0", title |-> <<"S">>, meal_type |-> "snack",
        protein_type |-> None, tags |-> {"quick"}, cook_time_min |-> NoneInt,
        ingredients |-> <<StrIngredient(<<"n","u","t">>)>>,
        last_cooked_at |-> NoneInt],
       [id |-> "r1", title |-> <<"c">>, meal_type |-> "lunch",
        protein_type |-> "beef", tags |-> {"quick", "spicy"},
        cook_time_min |-> NoneInt,
        ingredients |-> <<StrIngredient(<<"r","i","c","e">>),
                          StrIngredient(<<"p","e","a","s">>)>>,
        last_cooked_at |-> NoneInt],
       [id |-> "r2", title |-> <<"B">>, meal_type |-> "dinner",
        protein_type |-> "chicken", tags |-> {"quick"}, cook_time_min |-> 20,
        ingredients |-> <<StrIngredient(<<"E","g","g">>)>>,
        last_cooked_at |-> NoneInt],
       [id |-> "r3", title |-> <<"a">>, meal_type |-> "dinner",
        protein_type |-> "chicken", tags |-> {"spicy"}, cook_time_min |-> 45,
        ingredients |-> <<StrIngredient(<<"h","a","m">>)>>,
        last_cooked_at |-> NoneInt],
       [id |-> "r4", title |-> <<"b">>, meal_type |-> "breakfast",
        protein_type |-> "vegetarian", tags |-> {}, cook_time_min |-> 30,
        ingredients |-> <<>>,
        last_cooked_at |-> NoneInt],
       [id |-> "r5", title |-> <<"d">>, meal_type |-> "dinner",
        protein_type |-> None, tags |-> {"quick"}, cook_time_min |-> 0,
        ingredients |-> <<Ingredient(<<"e","g","g">>, TRUE)>>,
        last_cooked_at |-> NoneInt],
       [id |-> "r6", title |-> <<"e">>, meal_type |-> "dinner",
        protein_type |-> "beef", tags |-> {}, cook_time_min |-> 60,
        ingredients |-> <<StrIngredient(<<"o","a","t">>)>>,
        last_cooked_at |-> NoneInt],
       [id |-> "r7", title |-> <<"M">>, meal_type |-> "misc",
        protein_type |-> "fish", tags |-> {}, cook_time_min |-> 10,
        ingredients |-> <<>>,
        last_cooked_at |-> NoneInt] >>

\* PlannerConstraints with its field defaults
PlannerDefaults ==
    [exclude_ingredients |-> <<>>, include_tags |-> {}, exclude_tags |-> {},
     avoid_repeat_weeks |-> 4, balance_protein_types |-> TRUE,
     max_cook_time_min |-> NoneInt, required_recipes |-> {},
     start_week_on |-> "monday"]

\* MealPlanEntry
Entry(d, rid, notes, locked) ==
    [date |-> d, recipe_id |-> rid, notes |-> notes, locked |-> locked]

\* saved meal-plan documents the mealplans container is filled from
PlanShelf ==
    << [id |-> "p1", week_start_date |-> 98, dinners_per_week |-> 4,
        constraints |-> PlannerDefaults,
        entries |-> <<Entry(98, "r1", "", FALSE), Entry(99, None, "", FALSE),
                      Entry(100, "zz", "", TRUE), Entry(101, None, "", FALSE)>>],
       [id |-> "p2", week_start_date |-> 70, dinners_per_week |-> 4,
        constraints |-> PlannerDefaults,
        entries |-> <<Entry(70, "r2", "", FALSE), Entry(71, "r4", "", FALSE),
                      Entry(72, None, "", FALSE), Entry(73, None, "", FALSE)>>],
       [id |-> "p3", week_start_date |-> 97, dinners_per_week |-> 4,
        constraints |-> PlannerDefaults,
        entries |-> <<Entry(97, "r3", "", FALSE), Entry(98, None, "", FALSE),
                      Entry(99, None, "", FALSE), Entry(100, None, "", FALSE)>>] >>

Catalogs == {SubSeq(Shelf, 1, n) : n \in 0..Min(MaxCatalog, Len(Shelf))}
Histories == {SubSeq(PlanShelf, 1, n) : n \in 0..Min(MaxPlans, Len(PlanShelf))}

(***************************************************************************)
(* Requests                                                                *)
(***************************************************************************)
\* PlannerConstraints() of a request that sends no constraints
DefaultConstraints == PlannerDefaults

ConstraintSets ==
    { DefaultConstraints,
      [DefaultConstraints EXCEPT !.start_week_on = "sunday",
                                 !.balance_protein_types = FALSE,
                                 !.avoid_repeat_weeks = 0,
                                 !.max_cook_time_min = 0],
      [DefaultConstraints EXCEPT !.exclude_tags = {"spicy"},
                                 !.start_week_on = "sunday"],
      [DefaultConstraints EXCEPT !.include_tags = {"quick"},
                                 !.max_cook_time_min = 30,
                                 !.avoid_repeat_weeks = 1],
      [DefaultConstraints EXCEPT !.exclude_ingredients = << <<"e","G">> >>,
                                 !.required_recipes = {"r2", "r0"}],
      [DefaultConstraints EXCEPT !.exclude_ingredients =
                                     << <<"H","A","M">>, <<"e"," ","p">> >>],
      [DefaultConstraints EXCEPT !.include_tags = {"vegan"}],
      [DefaultConstraints EXCEPT !.exclude_ingredients = << <<"e","G">> >>,
                                 !.exclude_tags = {"quick"},
                                 !.include_tags = {"vegan"},
                                 !.max_cook_time_min = 10,
                                 !.required_recipes = {"r0", "r2", "r7"}] }

\* existing_entries arguments for a week (<<>> is also the None default:
\* both are falsy at planner.py:48)
ExistingFor(w) ==
    { <<>>,
      << Entry(w + 1, "r3", "n", TRUE), Entry(w + 4, "gone", "", TRUE) >>,
      << Entry(w + 1, "r2", "", TRUE), Entry(w + 3, "r2", "", TRUE) >>,
      << Entry(w + 2, None, "", TRUE), Entry(w, "r1", "", FALSE),
         Entry(w + 6, "r1", "", TRUE) >>,
      << Entry(w + 1, "r1", "", TRUE), Entry(w + 1, "r2", "", TRUE) >> }

WeekStarts == 98..104
Seeds == {NoneInt} \cup 1..MaxSeed

\* the arguments of one generate_meal_plan call
Requests ==
    UNION { { [week_start_date |-> w, dinners_per_week |-> n, constraints |-> c,
               existing_entries |-> e, seed |-> s] :
              n \in {4, 5}, c \in ConstraintSets, e \in ExistingFor(w),
              s \in Seeds } : w \in WeekStarts }

(***************************************************************************)
(* Repositories (reads)                                                    *)
(***************************************************************************)
\* list.sort(key=title.lower()) is stable: x goes after every element whose
\* key is not greater than its own
RECURSIVE InsertByTitle(_, _)
InsertByTitle(sorted, x) ==
    IF Len(sorted) = 0 THEN <<x>>
    ELSE IF StrLess(Lower(x.title), Lower(sorted[1].title))
    THEN <<x>> \o sorted
    ELSE <<sorted[1]>> \o InsertByTitle(Tail(sorted), x)

RECURSIVE SortByTitle(_, _)
SortByTitle(items, done) ==
    IF Len(items) = 0 THEN done
    ELSE SortByTitle(Tail(items), InsertByTitle(done, items[1]))

\* RecipeRepository.list_recipes(page_size=...): every Recipe document of
\* the user, sorted by lower-cased title, first page
list_recipes(container, page_size) ==
    LET items == SortByTitle(container, <<>>)
    IN  SubSeq(items, 1, Min(page_size, Len(items)))

\* MealPlanRepository.list_meal_plans(from_date, to_date)
list_meal_plans(container, from_date, to_date) ==
    SelectSeq(container,
              LAMBDA p : p.week_start_date >= from_date
                         /\ p.week_start_date <= to_date)

(***************************************************************************)
(* MealPlannerService                                                      *)
(***************************************************************************)
\* the page size _get_eligible_recipes asks for
PageSize == 1000

MealTypes == {"breakfast", "lunch", "dinner"}

\* " ".join(recipe.ingredients) raises TypeError unless every item is a str
JoinRaises(recipe) ==
    \E i \in 1..Len(recipe.ingredients) : recipe.ingredients[i].structured

\* " ".join(recipe.ingredients).lower()
RecipeText(recipe) ==
    Lower(Join([i \in 1..Len(recipe.ingredients) |->
                    recipe.ingredients[i].text], <<" ">>))

\* mutant of EligibleVerdict: the excluded ingredient is not lower-cased
EligibleVerdict_CaseSensitive(recipe, constraints) ==
    IF recipe.meal_type \notin MealTypes THEN "skip"
    ELSE IF constraints.required_recipes # {}
            /\ recipe.id \in constraints.required_recipes THEN "keep"
    ELSE IF constraints.exclude_tags # {}
            /\ \E tag \in constraints.exclude_tags : tag \in recipe.tags
         THEN "skip"
    ELSE IF Len(constraints.exclude_ingredients) > 0 /\ JoinRaises(recipe)
         THEN "raise"
    ELSE IF Len(constraints.exclude_ingredients) > 0
            /\ \E i \in 1..Len(constraints.exclude_ingredients) :
                   Contains(RecipeText(recipe),
                            constraints.exclude_ingredients[i])
         THEN "skip"
    ELSE IF TruthyInt(constraints.max_cook_time_min)
            /\ TruthyInt(recipe.cook_time_min)
            /\ recipe.cook_time_min > constraints.max_cook_time_min
         THEN "skip"
    ELSE IF constraints.include_tags # {}
            /\ ~ \E tag \in constraints.include_tags : tag \in recipe.tags
         THEN "skip"
    ELSE "keep"

\* mutant of EligibleVerdict: required_recipes is looked at after the
\* other checks
EligibleVerdict_RequiredLast(recipe, constraints) ==
    IF recipe.meal_type \notin MealTypes THEN "skip"
    ELSE IF constraints.exclude_tags # {}
            /\ \E tag \in constraints.exclude_tags : tag \in recipe.tags
         THEN "skip"
    ELSE IF Len(constraints.exclude_ingredients) > 0 /\ JoinRaises(recipe)
         THEN "raise"
    ELSE IF Len(constraints.exclude_ingredients) > 0
            /\ \E i \in 1..Len(constraints.exclude_ingredients) :
                   Contains(RecipeText(recipe),
                            Lower(constraints.exclude_ingredients[i]))
         THEN "skip"
    ELSE IF TruthyInt(constraints.max_cook_time_min)
            /\ TruthyInt(recipe.cook_time_min)
            /\ recipe.cook_time_min > constraints.max_cook_time_min
         THEN "skip"
    ELSE IF constraints.include_tags # {}
            /\ ~ \E tag \in constraints.include_tags : tag \in recipe.tags
         THEN "skip"
    ELSE "keep"

\* the checks of one recipe in _get_eligible_recipes:
\* "skip", "keep" or "raise"
EligibleVerdict(recipe, constraints) ==
    IF recipe.meal_type \notin MealTypes THEN "skip"
    ELSE IF constraints.required_recipes # {}
            /\ recipe.id \in constraints.required_recipes THEN "keep"
    ELSE IF constraints.exclude_tags # {}
            /\ \E tag \in constraints.exclude_tags : tag \in recipe.tags
         THEN "skip"
    ELSE IF Len(constraints.exclude_ingredients) > 0 /\ JoinRaises(recipe)
         THEN "raise"
    ELSE IF Len(constraints.exclude_ingredients) > 0
            /\ \E i \in 1..Len(constraints.exclude_ingredients) :
                   Contains(RecipeText(recipe),
                            Lower(constraints.exclude_ingredients[i]))
         THEN "skip"
    ELSE IF TruthyInt(constraints.max_cook_time_min)
            /\ TruthyInt(recipe.cook_time_min)
            /\ recipe.cook_time_min > constraints.max_cook_time_min
         THEN "skip"
    ELSE IF constraints.include_tags # {}
            /\ ~ \E tag \in constraints.include_tags : tag \in recipe.tags
         THEN "skip"
    ELSE "keep"

\* MealPlannerService._get_eligible_recipes: the eligible list, or raised
\* when a recipe's check raises (the loop stops there)
_get_eligible_recipes(container, constraints) ==
    LET all_recipes == list_recipes(container, PageSize)
        verdict(i) == EligibleVerdict(all_recipes[i], constraints)
    IN  [raised  |-> \E i \in 1..Len(all_recipes) : verdict(i) = "raise",
         recipes |-> SelectSeq(all_recipes,
                         LAMBDA r : EligibleVerdict(r, constraints) = "keep")]

\* MealPlannerService._get_recently_used_recipes
_get_recently_used_recipes(container, week_start_date, avoid_weeks) ==
    IF avoid_weeks <= 0 THEN {}
    ELSE LET start_check == week_start_date - 7 * avoid_weeks
             end_check == week_start_date - 1
             recent_plans == list_meal_plans(container, start_check, end_check)
         IN  UNION { { p.entries[j].recipe_id :
                           j \in { k \in 1..Len(p.entries) :
                                     TruthyStr(p.entries[k].recipe_id) } } :
                         p \in Range(recent_plans) }

\* date.weekday(): Monday is 0, Sunday is 6
Weekday(d) == d % 7

\* mutant of _generate_dinner_dates: a Monday is not moved back to Sunday
_generate_dinner_dates_NoSundayShift(week_start, dinners_per_week, start_week_on) ==
    LET start == IF start_week_on = "monday" /\ Weekday(week_start) = 6
                 THEN week_start + 1
                 ELSE week_start
    IN  [i \in 1..dinners_per_week |-> start + (i - 1)]

\* MealPlannerService._generate_dinner_dates
_generate_dinner_dates(week_start, dinners_per_week, start_week_on) ==
    LET start == IF start_week_on = "sunday" /\ Weekday(week_start) = 0
                 THEN week_start - 1
                 ELSE IF start_week_on = "monday" /\ Weekday(week_start) = 6
                 THEN week_start + 1
                 ELSE week_start
    IN  [i \in 1..dinners_per_week |-> start + (i - 1)]

(***************************************************************************)
(* The process-wide generator of module random.  Its state stands for the  *)
(* draws to come: a draw among n takes the state's last base-n digit and   *)
(* leaves the rest, so each state fixes one sequence of choices and every  *)
(* sequence of choices belongs to some state.                              *)
(***************************************************************************)
\* the string random.seed is given (planner.py:28-31): the ISO date, with
\* "-" and the seed appended when the seed is truthy
SeedKey(week_start_date, seed) ==
    IF seed # NoneInt /\ seed # 0
    THEN <<week_start_date, seed>>
    ELSE <<week_start_date, 0>>

\* random.seed(key): the state a key leads to (distinct keys, distinct states)
RandomSeed(key) == key[1] * (MaxSeed + 1) + key[2]

\* random.choice(seq): the element drawn and the state after the draw
RandomChoice(state, seq) ==
    [value |-> seq[(state % Len(seq)) + 1], rng |-> state \div Len(seq)]

\* mutant of _select_recipe: the protein narrowing is left out
_select_recipe_NoBalance(eligible_recipes, used_recipe_ids, recently_used, constraints, available_pool, state) ==
    LET pool == available_pool
        from_pool == SelectSeq(pool, LAMBDA r : r.id \notin used_recipe_ids)
        available ==
            IF Len(from_pool) = 0
            THEN SelectSeq(eligible_recipes,
                           LAMBDA r : r.id \notin used_recipe_ids)
            ELSE from_pool
        preferred == SelectSeq(available, LAMBDA r : r.id \notin recently_used)
        by_recency == IF Len(preferred) > 0 THEN preferred ELSE available
        candidates == by_recency
    IN  IF Len(available) = 0
        THEN [found |-> FALSE, rng |-> state]
        ELSE LET draw == RandomChoice(state, candidates)
             IN  [found |-> TRUE, recipe |-> draw.value, rng |-> draw.rng]

\* mutant of _select_recipe: the preference for recipes not used recently
\* is left out
_select_recipe_NoRecency(eligible_recipes, used_recipe_ids, recently_used, constraints, available_pool, state) ==
    LET pool == available_pool
        from_pool == SelectSeq(pool, LAMBDA r : r.id \notin used_recipe_ids)
        available ==
            IF Len(from_pool) = 0
            THEN SelectSeq(eligible_recipes,
                           LAMBDA r : r.id \notin used_recipe_ids)
            ELSE from_pool
        by_recency == available
        used_proteins ==
            { eligible_recipes[i].protein_type :
                i \in { k \in 1..Len(eligible_recipes) :
                          /\ eligible_recipes[k].id \in used_recipe_ids
                          /\ TruthyStr(eligible_recipes[k].protein_type) } }
        different_proteins ==
            SelectSeq(by_recency,
                      LAMBDA r : \/ ~ TruthyStr(r.protein_type)
                                 \/ r.protein_type \notin used_proteins)
        candidates ==
            IF /\ constraints.balance_protein_types
               /\ used_recipe_ids # {}
               /\ Len(different_proteins) > 0
            THEN different_proteins
            ELSE by_recency
    IN  IF Len(available) = 0
        THEN [found |-> FALSE, rng |-> state]
        ELSE LET draw == RandomChoice(state, candidates)
             IN  [found |-> TRUE, recipe |-> draw.value, rng |-> draw.rng]

\* MealPlannerService._select_recipe, with the generator's state threaded:
\* [found, recipe, rng]
_select_recipe(eligible_recipes, used_recipe_ids, recently_used, constraints, available_pool, state) ==
    LET pool == available_pool
        from_pool == SelectSeq(pool, LAMBDA r : r.id \notin used_recipe_ids)
        available ==
            IF Len(from_pool) = 0
            THEN SelectSeq(eligible_recipes,
                           LAMBDA r : r.id \notin used_recipe_ids)
            ELSE from_pool
        preferred == SelectSeq(available, LAMBDA r : r.id \notin recently_used)
        by_recency == IF Len(preferred) > 0 THEN preferred ELSE available
        used_proteins ==
            { eligible_recipes[i].protein_type :
                i \in { k \in 1..Len(eligible_recipes) :
                          /\ eligible_recipes[k].id \in used_recipe_ids
                          /\ TruthyStr(eligible_recipes[k].protein_type) } }
        different_proteins ==
            SelectSeq(by_recency,
                      LAMBDA r : \/ ~ TruthyStr(r.protein_type)
                                 \/ r.protein_type \notin used_proteins)
        candidates ==
            IF /\ constraints.balance_protein_types
               /\ used_recipe_ids # {}
               /\ Len(different_proteins) > 0
            THEN different_proteins
            ELSE by_recency
    IN  IF Len(available) = 0
        THEN [found |-> FALSE, rng |-> state]
        ELSE LET draw == RandomChoice(state, candidates)
             IN  [found |-> TRUE, recipe |-> draw.value, rng |-> draw.rng]

\* mutant of LockedEntries: the first locked entry of a date wins
LockedEntries_FirstWins(existing_entries, dinner_dates) ==
    LET idx == { i \in 1..Len(existing_entries) :
                   /\ existing_entries[i].locked
                   /\ existing_entries[i].date \in Range(dinner_dates) }
        first(d) == CHOOSE i \in idx :
                      /\ existing_entries[i].date = d
                      /\ \A j \in idx : existing_entries[j].date = d => i <= j
    IN  [d \in { existing_entries[i].date : i \in idx } |->
            existing_entries[first(d)]]

\* locked_entries (planner.py:47-51): the last locked existing entry of each
\* dinner date that has one
LockedEntries(existing_entries, dinner_dates) ==
    LET idx == { i \in 1..Len(existing_entries) :
                   /\ existing_entries[i].locked
                   /\ existing_entries[i].date \in Range(dinner_dates) }
        last(d) == CHOOSE i \in idx :
                     /\ existing_entries[i].date = d
                     /\ \A j \in idx : existing_entries[j].date = d => j <= i
    IN  [d \in { existing_entries[i].date : i \in idx } |->
            existing_entries[last(d)]]

\* mutant of PlanDate: a locked entry without a recipe is dropped
PlanDate_DropsEmptyLocked(st, dinner_date, ctx) ==
    IF dinner_date \in DOMAIN ctx.locked_entries
    THEN LET kept == ctx.locked_entries[dinner_date]
         IN  IF TruthyStr(kept.recipe_id)
             THEN [st EXCEPT
                     !.entries = Append(@, kept),
                     !.used_recipe_ids = @ \cup {kept.recipe_id},
                     !.available_pool =
                         SelectSeq(@, LAMBDA r : r.id # kept.recipe_id)]
             ELSE st
    ELSE LET pick == _select_recipe(ctx.eligible_recipes, st.used_recipe_ids,
                                    ctx.recently_used, ctx.constraints,
                                    st.available_pool, st.rng)
         IN  IF pick.found
             THEN LET entries == Append(st.entries,
                                        Entry(dinner_date, pick.recipe.id,
                                              "", FALSE))
                      used == st.used_recipe_ids \cup {pick.recipe.id}
                      left == SelectSeq(st.available_pool,
                                        LAMBDA r : r.id # pick.recipe.id)
                  IN  [entries |-> entries,
                       used_recipe_ids |-> used,
                       available_pool |->
                           IF Len(left) = 0
                              /\ Len(entries) < Len(ctx.dinner_dates)
                           THEN SelectSeq(ctx.eligible_recipes,
                                          LAMBDA r : r.id \notin used)
                           ELSE left,
                       rng |-> pick.rng]
             ELSE [st EXCEPT
                     !.entries = Append(@, Entry(dinner_date, None, "", FALSE))]

\* mutant of PlanDate: a picked recipe is not marked as used nor taken
\* out of the pool
PlanDate_ForgetsPick(st, dinner_date, ctx) ==
    IF dinner_date \in DOMAIN ctx.locked_entries
    THEN LET kept == ctx.locked_entries[dinner_date]
         IN  IF TruthyStr(kept.recipe_id)
             THEN [st EXCEPT
                     !.entries = Append(@, kept),
                     !.used_recipe_ids = @ \cup {kept.recipe_id},
                     !.available_pool =
                         SelectSeq(@, LAMBDA r : r.id # kept.recipe_id)]
             ELSE [st EXCEPT !.entries = Append(@, kept)]
    ELSE LET pick == _select_recipe(ctx.eligible_recipes, st.used_recipe_ids,
                                    ctx.recently_used, ctx.constraints,
                                    st.available_pool, st.rng)
         IN  IF pick.found
             THEN [st EXCEPT
                     !.entries = Append(@, Entry(dinner_date, pick.recipe.id,
                                                 "", FALSE)),
                     !.rng = pick.rng]
             ELSE [st EXCEPT
                     !.entries = Append(@, Entry(dinner_date, None, "", FALSE))]

\* mutant of PlanDate: the refill of an exhausted pool takes every eligible
\* recipe
PlanDate_RefillAll(st, dinner_date, ctx) ==
    IF dinner_date \in DOMAIN ctx.locked_entries
    THEN LET kept == ctx.locked_entries[dinner_date]
         IN  IF TruthyStr(kept.recipe_id)
             THEN [st EXCEPT
                     !.entries = Append(@, kept),
                     !.used_recipe_ids = @ \cup {kept.recipe_id},
                     !.available_pool =
                         SelectSeq(@, LAMBDA r : r.id # kept.recipe_id)]
             ELSE [st EXCEPT !.entries = Append(@, kept)]
    ELSE LET pick == _select_recipe(ctx.eligible_recipes, st.used_recipe_ids,
                                    ctx.recently_used, ctx.constraints,
                                    st.available_pool, st.rng)
         IN  IF pick.found
             THEN LET entries == Append(st.entries,
                                        Entry(dinner_date, pick.recipe.id,
                                              "", FALSE))
                      used == st.used_recipe_ids \cup {pick.recipe.id}
                      left == SelectSeq(st.available_pool,
                                        LAMBDA r : r.id # pick.recipe.id)
                  IN  [entries |-> entries,
                       used_recipe_ids |-> used,
                       available_pool |->
                           IF Len(left) = 0
                              /\ Len(entries) < Len(ctx.dinner_dates)
                           THEN ctx.eligible_recipes
                           ELSE left,
                       rng |-> pick.rng]
             ELSE [st EXCEPT
                     !.entries = Append(@, Entry(dinner_date, None, "", FALSE))]

\* one pass of the loop over dinner_dates (planner.py:61-96); st holds
\* entries, used_recipe_ids, available_pool and the generator's state
PlanDate(st, dinner_date, ctx) ==
    IF dinner_date \in DOMAIN ctx.locked_entries
    THEN LET kept == ctx.locked_entries[dinner_date]
         IN  IF TruthyStr(kept.recipe_id)
             THEN [st EXCEPT
                     !.entries = Append(@, kept),
                     !.used_recipe_ids = @ \cup {kept.recipe_id},
                     !.available_pool =
                         SelectSeq(@, LAMBDA r : r.id # kept.recipe_id)]
             ELSE [st EXCEPT !.entries = Append(@, kept)]
    ELSE LET pick == _select_recipe(ctx.eligible_recipes, st.used_recipe_ids,
                                    ctx.recently_used, ctx.constraints,
                                    st.available_pool, st.rng)
         IN  IF pick.found
             THEN LET entries == Append(st.entries,
                                        Entry(dinner_date, pick.recipe.id,
                                              "", FALSE))
                      used == st.used_recipe_ids \cup {pick.recipe.id}
                      left == SelectSeq(st.available_pool,
                                        LAMBDA r : r.id # pick.recipe.id)
                  IN  [entries |-> entries,
                       used_recipe_ids |-> used,
                       available_pool |->
                           IF Len(left) = 0
                              /\ Len(entries) < Len(ctx.dinner_dates)
                           THEN SelectSeq(ctx.eligible_recipes,
                                          LAMBDA r : r.id \notin used)
                           ELSE left,
                       rng |-> pick.rng]
             ELSE [st EXCEPT
                     !.entries = Append(@, Entry(dinner_date, None, "", FALSE))]

RECURSIVE PlanLoop(_, _, _)
PlanLoop(i, st, ctx) ==
    IF i > Len(ctx.dinner_dates) THEN st
    ELSE PlanLoop(i + 1, PlanDate(st, ctx.dinner_dates[i], ctx), ctx)

\* the values of entries, used_recipe_ids and available_pool at the top of
\* each pass of the loop, from pass i on
RECURSIVE PlanSteps(_, _, _)
PlanSteps(i, st, ctx) ==
    IF i > Len(ctx.dinner_dates) THEN <<>>
    ELSE Strictly(LAMBDA now :
                      <<now>> \o PlanSteps(i + 1,
                                           PlanDate(now, ctx.dinner_dates[i],
                                                    ctx), ctx),
                  st)

\* the response built at planner.py:98-110
PlanResponse(entries, eligible_recipes) ==
    LET known == { eligible_recipes[i].id : i \in 1..Len(eligible_recipes) }
        by_id(rid) == eligible_recipes[
                          CHOOSE i \in 1..Len(eligible_recipes) :
                              /\ eligible_recipes[i].id = rid
                              /\ \A j \in 1..Len(eligible_recipes) :
                                     eligible_recipes[j].id = rid => j <= i]
        chosen == SelectSeq(entries,
                            LAMBDA e : TruthyStr(e.recipe_id)
                                       /\ e.recipe_id \in known)
        selected_recipes == [i \in 1..Len(chosen) |-> by_id(chosen[i].recipe_id)]
    IN  [entries |-> entries,
         recipes |-> selected_recipes,
         message |-> [text |-> "Generated meal plan with N recipes",
                      n |-> Len(selected_recipes)]]

\* the response of planner.py:36-41
EmptyResponse ==
    [entries |-> <<>>, recipes |-> <<>>,
     message |-> [text |-> "No recipes found matching the constraints",
                  n |-> 0]]

(***************************************************************************)
(* State                                                                   *)
(***************************************************************************)
VARIABLES
    recipes,    \* the recipes container (documents in container order)
    mealplans,  \* the mealplans container
    rng,        \* the state of module random's shared generator
    calls,      \* per request: where its generate_meal_plan coroutine stands
    returns,    \* what earlier calls of the request returned, with their arguments
    profile,    \* the user profile document (its staple_groceries)
    issued,     \* how many uuid4 document ids have been issued
    ai,         \* the AI consolidator's client and what its endpoint does
    response    \* what the last handler of the API answered

vars ==
    <<recipes, mealplans, rng, calls, returns, profile, issued, ai, response>>

\* no handler has answered yet
NoResponse == [op |-> "none"]

\* the consolidator without a client (Azure AI settings incomplete) and with
\* settings.feature_ai off
AIOff == [client |-> FALSE, feature_ai |-> FALSE, service |-> "answers"]

Callers == 1..NumCallers

Idle == [pc |-> "idle"]

Init ==
    /\ recipes \in Catalogs
    /\ mealplans \in Histories
    /\ rng \in 0..MaxInitRng
    /\ calls = [c \in Callers |-> Idle]
    /\ returns = <<>>
    /\ profile = [staple_groceries |-> <<>>]
    /\ issued = 0
    /\ ai = AIOff
    /\ response = NoResponse

\* mutant of Seeded: without a seed argument the generator is left as it is
Seeded_OnlyWithSeed(request) ==
    IF request.seed # NoneInt
    THEN RandomSeed(SeedKey(request.week_start_date, request.seed))
    ELSE rng

\* planner.py:17-34: the generator is seeded, then the coroutine awaits
\* _get_eligible_recipes
Seeded(request) ==
    RandomSeed(SeedKey(request.week_start_date, request.seed))

Invoke(c, request) ==
    /\ calls[c].pc = "idle"
    /\ rng' = Seeded(request)
    /\ calls' = [calls EXCEPT ![c] = [pc |-> "await_eligible",
                                      request |-> request]]
    /\ UNCHANGED <<ai, recipes, mealplans, returns, profile, issued, response>>

\* mutant of AfterEligible: no return on an empty eligible list
AfterEligible_NoEarlyReturn(call, container) ==
    LET request == call.request
        got == _get_eligible_recipes(container, request.constraints)
        dinner_dates == _generate_dinner_dates(request.week_start_date,
                                               request.dinners_per_week,
                                               request.constraints.start_week_on)
    IN  IF got.raised
        THEN [pc |-> "raised", request |-> request]
        ELSE [pc |-> "await_recent", request |-> request,
              eligible_recipes |-> got.recipes,
              dinner_dates |-> dinner_dates,
              locked_entries |-> LockedEntries(request.existing_entries,
                                               dinner_dates)]

\* planner.py:34-54: the eligible recipes arrive; the call raises, returns
\* the empty response, or goes on to await _get_recently_used_recipes
AfterEligible(call, container) ==
    LET request == call.request
        got == _get_eligible_recipes(container, request.constraints)
        dinner_dates == _generate_dinner_dates(request.week_start_date,
                                               request.dinners_per_week,
                                               request.constraints.start_week_on)
    IN  IF got.raised
        THEN [pc |-> "raised", request |-> request]
        ELSE IF Len(got.recipes) = 0
        THEN [pc |-> "returned", request |-> request,
              eligible_recipes |-> got.recipes, result |-> EmptyResponse]
        ELSE [pc |-> "await_recent", request |-> request,
              eligible_recipes |-> got.recipes,
              dinner_dates |-> dinner_dates,
              locked_entries |-> LockedEntries(request.existing_entries,
                                               dinner_dates)]

ResumeEligible(c) ==
    /\ calls[c].pc = "await_eligible"
    /\ calls' = [calls EXCEPT ![c] = AfterEligible(@, recipes)]
    /\ UNCHANGED <<ai, recipes, mealplans, rng, returns, profile, issued, response>>

\* planner.py:54-110: the recency set arrives; the loop over the dinner
\* dates draws from the shared generator and the response is returned
AfterRecent(call, container, state) ==
    LET request == call.request
        ctx == [dinner_dates |-> call.dinner_dates,
                eligible_recipes |-> call.eligible_recipes,
                locked_entries |-> call.locked_entries,
                constraints |-> request.constraints,
                recently_used |->
                    _get_recently_used_recipes(
                        container, request.week_start_date,
                        request.constraints.avoid_repeat_weeks)]
        st == PlanLoop(1, [entries |-> <<>>, used_recipe_ids |-> {},
                           available_pool |-> call.eligible_recipes,
                           rng |-> state], ctx)
        steps == PlanSteps(1, [entries |-> <<>>, used_recipe_ids |-> {},
                               available_pool |-> call.eligible_recipes,
                               rng |-> state], ctx)
    IN  [call |-> [call EXCEPT !.pc = "returned"] @@
                  [result |-> PlanResponse(st.entries, call.eligible_recipes),
                   recently_used |-> ctx.recently_used,
                   steps |-> steps],
         rng |-> st.rng]

ResumeRecent(c) ==
    /\ calls[c].pc = "await_recent"
    /\ LET after == AfterRecent(calls[c], mealplans, rng)
       IN  /\ calls' = [calls EXCEPT ![c] = after.call]
           /\ rng' = after.rng
    /\ UNCHANGED <<ai, recipes, mealplans, returns, profile, issued, response>>

\* the client sends the same request again: the call that returned is
\* remembered and generate_meal_plan starts anew with the same arguments
Reissue(c) ==
    /\ calls[c].pc = "returned"
    /\ Len(returns) < MaxRepeats
    /\ returns' = Append(returns, [request |-> calls[c].request,
                                   result |-> calls[c].result,
                                   recipes |-> recipes,
                                   mealplans |-> mealplans])
    /\ rng' = Seeded(calls[c].request)
    /\ calls' = [calls EXCEPT ![c] = [pc |-> "await_eligible",
                                      request |-> calls[c].request]]
    /\ UNCHANGED <<ai, recipes, mealplans, profile, issued, response>>

(***************************************************************************)
(* Spec: requests are served one at a time.  The repositories' coroutines  *)
(* hold no suspension point (they call the synchronous Cosmos client), so  *)
(* a generate_meal_plan call runs from its first line to its return        *)
(* without another coroutine running in between.                           *)
(***************************************************************************)
Next ==
    \/ \E request \in Requests : Invoke(1, request)
    \/ ResumeEligible(1)
    \/ ResumeRecent(1)
    \/ Reissue(1)

Spec == Init /\ [][Next]_vars

(***************************************************************************)
(* SpecConc: requests overlap.  A coroutine may be suspended at each of    *)
(* its awaits (planner.py:34 and :54) while another request's coroutine    *)
(* runs, which is what the repositories' async interface allows.           *)
(***************************************************************************)
ConcRequests ==
    { [week_start_date |-> w, dinners_per_week |-> 4,
       constraints |-> DefaultConstraints, existing_entries |-> <<>>,
       seed |-> NoneInt] : w \in {98, 99} }

NextConc ==
    \E c \in Callers :
        \/ \E request \in ConcRequests : Invoke(c, request)
        \/ ResumeEligible(c)
        \/ ResumeRecent(c)

SpecConc == Init /\ [][NextConc]_vars

(***************************************************************************)
(* Vocabulary of the properties                                            *)
(***************************************************************************)
Returned(c) == calls[c].pc = "returned"

\* the call got past the empty-catalog return: it planned the dinner dates
Planned(c) == Returned(c) /\ Len(calls[c].eligible_recipes) > 0

Entries(c) == calls[c].result.entries

\* indices of the existing entries that are locked and fall on a dinner date
LockedIdx(c) ==
    { i \in 1..Len(calls[c].request.existing_entries) :
        /\ calls[c].request.existing_entries[i].locked
        /\ calls[c].request.existing_entries[i].date
               \in Range(calls[c].dinner_dates) }

\* entry j of the result was filled by this call (its date has no locked
\* existing entry)
Filled(c, j) ==
    \A i \in LockedIdx(c) :
        calls[c].request.existing_entries[i].date # Entries(c)[j].date

HasRecipe(e) == e.recipe_id # None /\ e.recipe_id # ""

UsedBefore(c, j) ==
    { Entries(c)[k].recipe_id :
        k \in { i \in 1..(j - 1) : HasRecipe(Entries(c)[i]) } }

EligibleSet(c) == Range(calls[c].eligible_recipes)

EligibleIds(c) == { r.id : r \in EligibleSet(c) }

\* the protein type of an eligible recipe, None for any other id
ProteinOf(c, rid) ==
    IF rid \in EligibleIds(c)
    THEN (CHOOSE r \in EligibleSet(c) : r.id = rid).protein_type
    ELSE None

(***************************************************************************)
(* C4  No repeat within a plan                                             *)
(***************************************************************************)
\* C4 as claimed: no recipe id is on two dates of a returned plan (locked
\* and filled entries together) unless fewer recipes are eligible than
\* dinners_per_week.
C4_NoRepeatAtAll ==
    \A c \in Callers :
        Planned(c) =>
            \A i, j \in 1..Len(Entries(c)) :
                /\ i < j
                /\ HasRecipe(Entries(c)[i])
                /\ Entries(c)[i].recipe_id = Entries(c)[j].recipe_id
                => Len(calls[c].eligible_recipes)
                       < calls[c].request.dinners_per_week

\* C4 amended: no recipe id is on two dates of a returned plan unless fewer
\* recipes are eligible than dinners_per_week or the later of the two dates
\* holds a preserved locked entry.
C4_NoRepeatAmongFilled ==
    \A c \in Callers :
        Planned(c) =>
            \A i, j \in 1..Len(Entries(c)) :
                /\ i < j
                /\ HasRecipe(Entries(c)[i])
                /\ Entries(c)[i].recipe_id = Entries(c)[j].recipe_id
                => \/ Len(calls[c].eligible_recipes)
                          < calls[c].request.dinners_per_week
                   \/ ~ Filled(c, j)

\* enough eligible recipes, every date filled by the call with a recipe,
\* from a pool that offered a choice
C4_Witness ==
    \E c \in Callers :
        /\ Planned(c)
        /\ Len(calls[c].eligible_recipes) > calls[c].request.dinners_per_week
        /\ \A j \in 1..Len(Entries(c)) :
               Filled(c, j) /\ HasRecipe(Entries(c)[j])

(***************************************************************************)
(* C5  Null recipe only on an empty eligible set                           *)
(***************************************************************************)
\* C5 as claimed: with a non-empty eligible list every date the call fills
\* itself receives a recipe (after exhaustion, a reused one).
C5_FilledDatesGetRecipe ==
    \A c \in Callers :
        Planned(c) =>
            \A j \in 1..Len(Entries(c)) :
                Filled(c, j) => HasRecipe(Entries(c)[j])

FreshProtein(c, j, r) ==
    \/ ~ TruthyStr(r.protein_type)
    \/ r.protein_type \notin
           { ProteinOf(c, rid) : rid \in UsedBefore(c, j) \cap EligibleIds(c) }

\* the candidates left by the recency preference at date j
RecencyCandidates(c, j) ==
    LET available == { r \in EligibleSet(c) : r.id \notin UsedBefore(c, j) }
        preferred == { r \in available : r.id \notin calls[c].recently_used }
    IN  IF preferred # {} THEN preferred ELSE available

C7_FilledRespectExclusions ==
    \A c \in Callers :
        Planned(c) =>
            \A j \in 1..Len(Entries(c)) :
                /\ Filled(c, j)
                /\ HasRecipe(Entries(c)[j])
                /\ Entries(c)[j].recipe_id
                       \notin calls[c].request.constraints.required_recipes
                => \E r \in Range(recipes) :
                       /\ r.id = Entries(c)[j].recipe_id
                       /\ r.tags \cap calls[c].request.constraints.exclude_tags
                              = {}
                       /\ \A x \in Range(calls[c].request.constraints
                                           .exclude_ingredients) :
                              \A i \in 1..Len(r.ingredients) :
                                  ~ Contains(Lower(r.ingredients[i].text),
                                             Lower(x))

\* a plan made under exclude_ingredients that dropped a recipe it could
\* otherwise have planned and still filled a date
C7_Witness ==
    \E c \in Callers :
        /\ Planned(c)
        /\ Len(calls[c].request.constraints.exclude_ingredients) > 0
        /\ calls[c].request.constraints.required_recipes = {}
        /\ \E r \in Range(recipes) :
               /\ r.meal_type \in MealTypes
               /\ r.id \notin EligibleIds(c)
               /\ \E x \in Range(calls[c].request.constraints
                                   .exclude_ingredients) :
                      \E i \in 1..Len(r.ingredients) :
                          /\ ~ Contains(r.ingredients[i].text, x)
                          /\ Contains(Lower(r.ingredients[i].text), Lower(x))
        /\ \E j \in 1..Len(Entries(c)) :
               Filled(c, j) /\ HasRecipe(Entries(c)[j])

(***************************************************************************)
(* C8  Determinism                                                         *)
(***************************************************************************)
\* C8: a call returns the entry sequence that every earlier call with the
\* same arguments returned on the same catalog and plan history.
C8_SameArgumentsSameEntries ==
    \A c \in Callers :
        Returned(c) =>
            \A k \in 1..Len(returns) :
                /\ returns[k].request = calls[c].request
                /\ returns[k].recipes = recipes
                /\ returns[k].mealplans = mealplans
                => returns[k].result.entries = Entries(c)

\* the same request returned twice, each time drawing among several
\* recipes for several dates
C8_Witness ==
    \E c \in Callers :
        /\ Planned(c)
        /\ Len(returns) > 0
        /\ returns[1].request = calls[c].request
        /\ Len(calls[c].eligible_recipes) >= 3
        /\ Cardinality({ j \in 1..Len(Entries(c)) :
                           Filled(c, j) /\ HasRecipe(Entries(c)[j]) }) >= 3

(***************************************************************************)
(* C9  Isolation of overlapping calls                                      *)
(***************************************************************************)
\* what a call returns when it runs alone on the containers: seeded by its
\* own arguments, with no other call between its first line and its return
RunAlone(request, recipe_container, plan_container) ==
    LET started == AfterEligible([pc |-> "await_eligible",
                                  request |-> request], recipe_container)
    IN  IF started.pc = "await_recent"
        THEN AfterRecent(started, plan_container, Seeded(request)).call
        ELSE started

HasDates(c) == calls[c].pc = "await_recent" \/ Planned(c)

\* the weekday() of the day start_week_on names
StartWeekday(start_week_on) == IF start_week_on = "monday" THEN 0 ELSE 6

Distance(a, b) == IF a < b THEN b - a ELSE a - b

\* C10 as claimed: whatever the weekday of week_start_date, the first
\* dinner date falls on the start_week_on weekday, at most one day away.
C10_FirstDateOnStartDay ==
    \A c \in Callers :
        HasDates(c) =>
            /\ Weekday(calls[c].dinner_dates[1])
                   = StartWeekday(calls[c].request.constraints.start_week_on)
            /\ Distance(calls[c].dinner_dates[1],
                        calls[c].request.week_start_date) <= 1

\* C10 amended: for a week_start_date that is a Monday or a Sunday, the
\* first dinner date falls on the start_week_on weekday, at most one day
\* from week_start_date; for a week_start_date on any other weekday the
\* first dinner date is week_start_date itself.
C10_FirstDateFromMondayOrSunday ==
    \A c \in Callers :
        HasDates(c) =>
            LET w == calls[c].request.week_start_date
                first == calls[c].dinner_dates[1]
            IN  /\ Weekday(w) \in {0, 6} =>
                      /\ Weekday(first) = StartWeekday(
                             calls[c].request.constraints.start_week_on)
                      /\ Distance(first, w) <= 1
                /\ Weekday(w) \notin {0, 6} => first = w

\* a Monday week_start_date moved back to Sunday
C10_Witness ==
    \E c \in Callers :
        /\ HasDates(c)
        /\ calls[c].request.constraints.start_week_on = "sunday"
        /\ Weekday(calls[c].request.week_start_date) = 0
        /\ calls[c].dinner_dates[1] = calls[c].request.week_start_date - 1

(***************************************************************************)
(* RecipeRepository (writes) and the recipe endpoints                      *)
(***************************************************************************)
\* the uuid4 ids of created documents, in the order they are issued
NewIds == <<"n1", "n2", "n3", "n4">>

\* RecipeRepository.get_recipe: the document with the id, or None
HasRecipeId(container, recipe_id) ==
    \E i \in 1..Len(container) : container[i].id = recipe_id

\* RecipeRepository.get_recipe_by_title: c.title = @title, compared exactly
get_recipe_by_title(container, title) ==
    SelectSeq(container, LAMBDA r : r.title = title)

\* RecipeRepository.create_recipe: [raised, container]
create_recipe(container, recipe_data, new_id) ==
    IF Len(get_recipe_by_title(container, recipe_data.title)) > 0
    THEN [raised |-> TRUE, container |-> container]
    ELSE [raised |-> FALSE,
          container |-> Append(container, recipe_data @@ [id |-> new_id])]

\* Recipe.normalize_ingredients: every str item becomes an Ingredient
normalize_ingredients(ingredients) ==
    [i \in 1..Len(ingredients) |->
        Ingredient(ingredients[i].text, ingredients[i].includeInShoppingList)]

\* RecipeRepository.update_recipe: the fields set in update_data replace
\* those of the stored document; [found, container]
update_recipe(container, recipe_id, update_data) ==
    IF ~ HasRecipeId(container, recipe_id)
    THEN [found |-> FALSE, container |-> container]
    ELSE LET replaced(existing) ==
                 [f \in DOMAIN existing |->
                     IF f \in DOMAIN update_data
                     THEN IF f = "ingredients"
                          THEN normalize_ingredients(update_data[f])
                          ELSE update_data[f]
                     ELSE IF f = "ingredients"
                          THEN normalize_ingredients(existing[f])
                          ELSE existing[f]]
         IN  [found |-> TRUE,
              container |->
                  [i \in 1..Len(container) |->
                      IF container[i].id = recipe_id
                      THEN replaced(container[i])
                      ELSE container[i]]]

\* RecipeRepository.delete_recipe: [found, container]
delete_recipe(container, recipe_id) ==
    [found |-> HasRecipeId(container, recipe_id),
     container |-> SelectSeq(container, LAMBDA r : r.id # recipe_id)]

\* RecipeCreate bodies the clients send
RecipeBody(title) ==
    [title |-> title, meal_type |-> "dinner", protein_type |-> None,
     tags |-> {}, cook_time_min |-> NoneInt,
     ingredients |-> <<StrIngredient(<<"o","a","t">>)>>,
     last_cooked_at |-> NoneInt]

RecipeBodies == { RecipeBody(<<"S">>), RecipeBody(<<"T">>) }

\* RecipeUpdate bodies of PATCH: only the fields that are set
RecipePatches == { [title |-> <<"S">>], [title |-> <<"T">>],
                   [tags |-> {"quick"}] }

\* ids a client may name: the stored ones and one that does not exist
RecipeIdsNamed(container) == {container[i].id : i \in 1..Len(container)}
                                 \cup {"gone"}

\* POST /api/recipes/
CreateRecipe(recipe_data) ==
    /\ issued < MaxIssued
    /\ issued < Len(NewIds)
    /\ LET done == create_recipe(recipes, recipe_data, NewIds[issued + 1])
       IN  /\ recipes' = done.container
           /\ issued' = IF done.raised THEN issued ELSE issued + 1
           /\ response' = [op |-> "create_recipe",
                           status |-> IF done.raised THEN 400 ELSE 200]
    /\ UNCHANGED <<ai, mealplans, rng, calls, returns, profile>>

\* PUT /api/recipes/{recipe_id}: RecipeUpdate(**recipe_data.model_dump())
\* sets every field
PutRecipe(recipe_id, recipe_data) ==
    /\ LET done == update_recipe(recipes, recipe_id, recipe_data)
       IN  /\ recipes' = done.container
           /\ response' = [op |-> "update_recipe",
                           status |-> IF done.found THEN 200 ELSE 404]
    /\ UNCHANGED <<ai, mealplans, rng, calls, returns, profile, issued>>

\* PATCH /api/recipes/{recipe_id}
PatchRecipe(recipe_id, update_data) ==
    /\ LET done == update_recipe(recipes, recipe_id, update_data)
       IN  /\ recipes' = done.container
           /\ response' = [op |-> "patch_recipe",
                           status |-> IF done.found THEN 200 ELSE 404]
    /\ UNCHANGED <<ai, mealplans, rng, calls, returns, profile, issued>>

\* DELETE /api/recipes/{recipe_id}
DeleteRecipe(recipe_id) ==
    /\ LET done == delete_recipe(recipes, recipe_id)
       IN  /\ recipes' = done.container
           /\ response' = [op |-> "delete_recipe",
                           status |-> IF done.found THEN 200 ELSE 404]
    /\ UNCHANGED <<ai, mealplans, rng, calls, returns, profile, issued>>

(***************************************************************************)
(* SpecRecipes: the recipe endpoints on a small catalog                    *)
(***************************************************************************)
InitRecipes ==
    /\ recipes \in {SubSeq(Shelf, 1, n) : n \in 0..Min(MaxCatalog, 2)}
    /\ mealplans = <<>>
    /\ rng = 0
    /\ calls = [c \in Callers |-> Idle]
    /\ returns = <<>>
    /\ profile = [staple_groceries |-> <<>>]
    /\ issued = 0
    /\ ai = AIOff
    /\ response = NoResponse

NextRecipes ==
    \/ \E recipe_data \in RecipeBodies : CreateRecipe(recipe_data)
    \/ \E recipe_id \in RecipeIdsNamed(recipes), recipe_data \in RecipeBodies :
           PutRecipe(recipe_id, recipe_data)
    \/ \E recipe_id \in RecipeIdsNamed(recipes), update_data \in RecipePatches :
           PatchRecipe(recipe_id, update_data)
    \/ \E recipe_id \in RecipeIdsNamed(recipes) : DeleteRecipe(recipe_id)

SpecRecipes == InitRecipes /\ [][NextRecipes]_vars

(***************************************************************************)
(* C11  Title uniqueness                                                   *)
(***************************************************************************)
\* C11 as claimed: no two stored recipes of the user have the same title.
C11_TitlesUnique ==
    \A i, j \in 1..Len(recipes) :
        recipes[i].title = recipes[j].title => i = j

(***************************************************************************)
(* MealPlanRepository (writes) and the meal-plan endpoints                 *)
(***************************************************************************)
HasPlanId(container, meal_plan_id) ==
    \E i \in 1..Len(container) : container[i].id = meal_plan_id

\* MealPlanRepository.get_meal_plan of a stored id
get_meal_plan(container, meal_plan_id) ==
    container[CHOOSE i \in 1..Len(container) : container[i].id = meal_plan_id]

\* MealPlanRepository.create_meal_plan: MealPlan(**meal_plan_data) is stored
\* as it was sent, under a new id
create_meal_plan(container, meal_plan_data, new_id) ==
    Append(container, meal_plan_data @@ [id |-> new_id])

\* MealPlanRepository.update_meal_plan: the fields set in meal_plan_data
\* replace those of the stored plan; [found, container]
update_meal_plan(container, meal_plan_id, meal_plan_data) ==
    [found |-> HasPlanId(container, meal_plan_id),
     container |->
         [i \in 1..Len(container) |->
             IF container[i].id = meal_plan_id
             THEN [f \in DOMAIN container[i] |->
                      IF f \in DOMAIN meal_plan_data
                      THEN meal_plan_data[f]
                      ELSE container[i][f]]
             ELSE container[i]]]

\* RecipeRepository.update_last_cooked: a recipe that is not found is
\* skipped
RECURSIVE update_last_cooked(_, _, _)
update_last_cooked(container, recipe_ids, cooked_date) ==
    IF Len(recipe_ids) = 0 THEN container
    ELSE update_last_cooked(
             [i \in 1..Len(container) |->
                 IF container[i].id = recipe_ids[1]
                 THEN [container[i] EXCEPT !.last_cooked_at = cooked_date]
                 ELSE container[i]],
             Tail(recipe_ids), cooked_date)

\* mutant of RecipeUpdates: the first entry of a recipe gives its date
RecipeUpdates_FirstWins(entries) ==
    LET with_recipe == SelectSeq(entries, LAMBDA e : TruthyStr(e.recipe_id))
        first(i) == \A j \in 1..(i - 1) :
                        with_recipe[j].recipe_id # with_recipe[i].recipe_id
        keys == { i \in 1..Len(with_recipe) : first(i) }
        nth(k) == CHOOSE i \in keys :
                      Cardinality({ j \in keys : j < i }) = k - 1
    IN  [k \in 1..Cardinality(keys) |->
            <<with_recipe[nth(k)].recipe_id, with_recipe[nth(k)].date>>]

\* the dict recipe_updates of the save endpoint as its items(): a key per
\* recipe id in the order of first appearance, its value the date of the
\* last entry with that recipe id
RecipeUpdates(entries) ==
    LET with_recipe == SelectSeq(entries, LAMBDA e : TruthyStr(e.recipe_id))
        first(i) == \A j \in 1..(i - 1) :
                        with_recipe[j].recipe_id # with_recipe[i].recipe_id
        keys == { i \in 1..Len(with_recipe) : first(i) }
        nth(k) == CHOOSE i \in keys :
                      Cardinality({ j \in keys : j < i }) = k - 1
        last(rid) == CHOOSE i \in 1..Len(with_recipe) :
                         /\ with_recipe[i].recipe_id = rid
                         /\ \A j \in (i + 1)..Len(with_recipe) :
                                with_recipe[j].recipe_id # rid
    IN  [k \in 1..Cardinality(keys) |->
            <<with_recipe[nth(k)].recipe_id,
              with_recipe[last(with_recipe[nth(k)].recipe_id)].date>>]

\* the loop of the save endpoint over recipe_updates.items()
RECURSIVE ApplyRecipeUpdates(_, _)
ApplyRecipeUpdates(container, items) ==
    IF Len(items) = 0 THEN container
    ELSE ApplyRecipeUpdates(
             update_last_cooked(container, <<items[1][1]>>, items[1][2]),
             Tail(items))

\* MealPlanCreate bodies the clients send for the week of day 98
PlanBody(dinners_per_week, entries) ==
    [week_start_date |-> 98, dinners_per_week |-> dinners_per_week,
     constraints |-> PlannerDefaults, entries |-> entries]

PlanBodies ==
    { PlanBody(4, << Entry(98, "r0", "", FALSE), Entry(99, "r1", "", FALSE),
                     Entry(100, None, "", FALSE),
                     Entry(101, "gone", "", FALSE) >>),
      PlanBody(4, << Entry(99, "r1", "", FALSE), Entry(98, "r1", "", TRUE) >>),
      PlanBody(5, <<>>) }

\* MealPlanUpdate bodies of PATCH: only the fields that are set
PlanPatches ==
    { [dinners_per_week |-> 5],
      [entries |-> << Entry(98, "r0", "", FALSE) >>] }

\* MealPlanLockRequest bodies
LockRequests ==
    { [entry_dates |-> {98}, locked |-> TRUE],
      [entry_dates |-> {98, 99}, locked |-> FALSE] }

PlanIdsNamed(container) == {container[i].id : i \in 1..Len(container)}
                               \cup {"gone"}

\* POST /api/mealplans/: the plan is stored, then last_cooked_at of its
\* recipes is updated
SavePlan(meal_plan_data) ==
    /\ issued < MaxIssued
    /\ issued < Len(NewIds)
    /\ Len(mealplans) <= MaxPlans
    /\ LET new_id == NewIds[issued + 1]
           meal_plan == meal_plan_data @@ [id |-> new_id]
       IN  /\ mealplans' = create_meal_plan(mealplans, meal_plan_data, new_id)
           /\ recipes' = ApplyRecipeUpdates(recipes,
                                            RecipeUpdates(meal_plan.entries))
           /\ response' = [op |-> "create_meal_plan", status |-> 200,
                           meal_plan |-> meal_plan]
    /\ issued' = issued + 1
    /\ UNCHANGED <<ai, rng, calls, returns, profile>>

\* PATCH /api/mealplans/{meal_plan_id}
PatchPlan(meal_plan_id, meal_plan_data) ==
    /\ LET done == update_meal_plan(mealplans, meal_plan_id, meal_plan_data)
       IN  /\ mealplans' = done.container
           /\ response' = [op |-> "update_meal_plan",
                           status |-> IF done.found THEN 200 ELSE 404]
    /\ UNCHANGED <<ai, recipes, rng, calls, returns, profile, issued>>

\* mutant of LockPlan: the flag is set on every entry of the plan
LockPlan_AllEntries(meal_plan_id, request) ==
    /\ IF ~ HasPlanId(mealplans, meal_plan_id)
       THEN /\ mealplans' = mealplans
            /\ response' = [op |-> "lock_meal_plan_entries", status |-> 404,
                            meal_plan_id |-> meal_plan_id, request |-> request]
       ELSE LET meal_plan == get_meal_plan(mealplans, meal_plan_id)
                entries == [i \in 1..Len(meal_plan.entries) |->
                               [meal_plan.entries[i]
                                    EXCEPT !.locked = request.locked]]
            IN  /\ mealplans' = update_meal_plan(mealplans, meal_plan_id,
                                                 [entries |-> entries])
                                    .container
                /\ response' = [op |-> "lock_meal_plan_entries",
                                status |-> 200,
                                meal_plan_id |-> meal_plan_id,
                                request |-> request]
    /\ UNCHANGED <<ai, recipes, rng, calls, returns, profile, issued>>

\* POST /api/mealplans/{meal_plan_id}/lock; the answer is kept with the
\* path parameter and the body it answers
LockPlan(meal_plan_id, request) ==
    /\ IF ~ HasPlanId(mealplans, meal_plan_id)
       THEN /\ mealplans' = mealplans
            /\ response' = [op |-> "lock_meal_plan_entries", status |-> 404,
                            meal_plan_id |-> meal_plan_id, request |-> request]
       ELSE LET meal_plan == get_meal_plan(mealplans, meal_plan_id)
                entries == [i \in 1..Len(meal_plan.entries) |->
                               IF meal_plan.entries[i].date
                                      \in request.entry_dates
                               THEN [meal_plan.entries[i]
                                         EXCEPT !.locked = request.locked]
                               ELSE meal_plan.entries[i]]
            IN  /\ mealplans' = update_meal_plan(mealplans, meal_plan_id,
                                                 [entries |-> entries])
                                    .container
                /\ response' = [op |-> "lock_meal_plan_entries",
                                status |-> 200,
                                meal_plan_id |-> meal_plan_id,
                                request |-> request]
    /\ UNCHANGED <<ai, recipes, rng, calls, returns, profile, issued>>

(***************************************************************************)
(* SpecPlans: the meal-plan endpoints on a small catalog                   *)
(***************************************************************************)
InitPlans ==
    /\ recipes \in {SubSeq(Shelf, 1, n) : n \in 1..Min(MaxCatalog, 2)}
    /\ mealplans \in Histories
    /\ rng = 0
    /\ calls = [c \in Callers |-> Idle]
    /\ returns = <<>>
    /\ profile = [staple_groceries |-> <<>>]
    /\ issued = 0
    /\ ai = AIOff
    /\ response = NoResponse

NextPlans ==
    \/ \E meal_plan_data \in PlanBodies : SavePlan(meal_plan_data)
    \/ \E meal_plan_id \in PlanIdsNamed(mealplans),
          meal_plan_data \in PlanPatches :
           PatchPlan(meal_plan_id, meal_plan_data)
    \/ \E meal_plan_id \in PlanIdsNamed(mealplans), request \in LockRequests :
           LockPlan(meal_plan_id, request)

SpecPlans == InitPlans /\ [][NextPlans]_vars

(***************************************************************************)
(* C12  Shape of a stored plan                                             *)
(***************************************************************************)
\* the first dinner date of a stored plan
AdjustedStart(meal_plan) ==
    _generate_dinner_dates(meal_plan.week_start_date, 1,
                           meal_plan.constraints.start_week_on)[1]

\* C12 as claimed: every stored plan has exactly dinners_per_week entries,
\* their dates pairwise distinct and forming the contiguous days that start
\* at the adjusted week_start_date.
C12_StoredPlansWellFormed ==
    \A i \in 1..Len(mealplans) :
        LET meal_plan == mealplans[i]
        IN  /\ Len(meal_plan.entries) = meal_plan.dinners_per_week
            /\ { meal_plan.entries[j].date : j \in 1..Len(meal_plan.entries) }
                   = AdjustedStart(meal_plan)
                       ..(AdjustedStart(meal_plan)
                              + meal_plan.dinners_per_week - 1)

(***************************************************************************)
(* C13  last_cooked_at after a save                                        *)
(***************************************************************************)
\* the save endpoint has just answered successfully
SaveAnswered ==
    response.op = "create_meal_plan" /\ response.status = 200

\* the stored recipe with the id
StoredRecipe(recipe_id) ==
    recipes[CHOOSE i \in 1..Len(recipes) : recipes[i].id = recipe_id]

SetMin(S) == CHOOSE x \in S : \A y \in S : x <= y

IsDigit(ch) == \E i \in 1..Len(DigitChars) : DigitChars[i] = ch

\* length of the run of digits of s that starts at position i
DigitsAt(s, i) ==
    SetMin({ j \in i..(Len(s) + 1) :
               j = Len(s) + 1 \/ ~ IsDigit(s[j]) }) - i

\* length of the run of spaces of s that starts at position i
SpacesAt(s, i) ==
    SetMin({ j \in i..(Len(s) + 1) : j = Len(s) + 1 \/ s[j] # " " }) - i

\* length of the run of other characters of s that starts at position i
WordAt(s, i) ==
    SetMin({ j \in i..(Len(s) + 1) : j = Len(s) + 1 \/ s[j] = " " }) - i

\* s has the text w at position i
StartsAt(s, i, w) ==
    /\ i + Len(w) - 1 <= Len(s)
    /\ SubSeq(s, i, i + Len(w) - 1) = w

\* str.strip()
Strip(s) ==
    IF SpacesAt(s, 1) = Len(s) THEN <<>>
    ELSE LET first == 1 + SpacesAt(s, 1)
             last == CHOOSE j \in 1..Len(s) :
                         /\ s[j] # " "
                         /\ \A k \in (j + 1)..Len(s) : s[k] = " "
         IN  SubSeq(s, first, last)

\* str.split(): the words between runs of whitespace
RECURSIVE SplitFrom(_, _)
SplitFrom(s, i) ==
    IF i + SpacesAt(s, i) > Len(s) THEN <<>>
    ELSE LET p == i + SpacesAt(s, i)
         IN  <<SubSeq(s, p, p + WordAt(s, p) - 1)>>
                 \o SplitFrom(s, p + WordAt(s, p))

Split(s) == SplitFrom(s, 1)

\* (cups?|tbsp|tsp|teaspoons?|tablespoons?|lbs?|pounds?|oz|ounces?|cloves?|
\* cans?|packages?), the units of both consolidators
SimpleUnits ==
    { <<"c","u","p">>, <<"c","u","p","s">>, <<"t","b","s","p">>,
      <<"t","s","p">>, <<"t","e","a","s","p","o","o","n">>,
      <<"t","e","a","s","p","o","o","n","s">>,
      <<"t","a","b","l","e","s","p","o","o","n">>,
      <<"t","a","b","l","e","s","p","o","o","n","s">>, <<"l","b">>,
      <<"l","b","s">>, <<"p","o","u","n","d">>, <<"p","o","u","n","d","s">>,
      <<"o","z">>, <<"o","u","n","c","e">>, <<"o","u","n","c","e","s">>,
      <<"c","l","o","v","e">>, <<"c","l","o","v","e","s">>, <<"c","a","n">>,
      <<"c","a","n","s">>, <<"p","a","c","k","a","g","e">>,
      <<"p","a","c","k","a","g","e","s">> }

\* the units of ExportService._extract_base_ingredient: those and ribs?
ExportUnits == SimpleUnits \cup { <<"r","i","b">>, <<"r","i","b","s">> }

\* (units)\s+ at position pos: the position after the match, 0 without one
UnitEnd(s, pos, units) ==
    IF \E u \in units : StartsAt(s, pos, u) /\ SpacesAt(s, pos + Len(u)) >= 1
    THEN LET u == CHOOSE u \in units :
                      StartsAt(s, pos, u) /\ SpacesAt(s, pos + Len(u)) >= 1
         IN  pos + Len(u) + SpacesAt(s, pos + Len(u))
    ELSE 0

\* ^\d+\s*(\d+/)?\d*\s*(units)\s+ : the position after the match, 0 without
\* one.  \d+ gives digits back to (\d+/) when a "/" follows the first run.
MeasureEnd(s, units) ==
    LET a == DigitsAt(s, 1)
        after_first == 1 + a
        after_slash(p) == p + 1 + DigitsAt(s, p + 1)
                              + SpacesAt(s, p + 1 + DigitsAt(s, p + 1))
        spaced == after_first + SpacesAt(s, after_first)
        b == DigitsAt(s, spaced)
    IN  IF a = 0 THEN 0
        ELSE IF after_first <= Len(s) /\ s[after_first] = "/"
        THEN IF a >= 2 THEN UnitEnd(s, after_slash(after_first), units) ELSE 0
        ELSE IF b >= 1 /\ spaced + b <= Len(s) /\ s[spaced + b] = "/"
        THEN UnitEnd(s, after_slash(spaced + b), units)
        ELSE UnitEnd(s, spaced + b + SpacesAt(s, spaced + b), units)

\* the vulgar fractions of the second expression
Fractions == { HalfSign }

\* ^(fraction)\s*(units)\s+ : the position after the match, 0 without one
FractionEnd(s, units) ==
    IF Len(s) >= 1 /\ s[1] \in Fractions
    THEN UnitEnd(s, 2 + SpacesAt(s, 2), units)
    ELSE 0

\* re.sub(pattern, '', s) for a pattern anchored at the start
DropTo(s, end) == IF end = 0 THEN s ELSE SubSeq(s, end, Len(s))

\* re.sub(r'\s*(words)\s+', ' ', s) with min_after = 1 and
\* re.sub(r'\s*(words)\s*', ' ', s) with min_after = 0, from position i
RECURSIVE SubWords(_, _, _, _)
SubWords(s, i, words, min_after) ==
    IF i > Len(s) THEN <<>>
    ELSE LET p == i + SpacesAt(s, i)
             hit(w) == /\ StartsAt(s, p, w)
                       /\ SpacesAt(s, p + Len(w)) >= min_after
         IN  IF \E w \in words : hit(w)
             THEN LET w == CHOOSE w \in words : hit(w)
                  IN  <<" ">> \o SubWords(s, p + Len(w)
                                             + SpacesAt(s, p + Len(w)),
                                          words, min_after)
             ELSE <<s[i]>> \o SubWords(s, i + 1, words, min_after)

\* re.sub(r'\s+', ' ', s), from position i
RECURSIVE CollapseSpaces(_, _)
CollapseSpaces(s, i) ==
    IF i > Len(s) THEN <<>>
    ELSE IF s[i] = " "
    THEN <<" ">> \o CollapseSpaces(s, i + SpacesAt(s, i))
    ELSE <<s[i]>> \o CollapseSpaces(s, i + 1)

\* re.sub(r'\s*\([^)]*\)\s*', ' ', s), from position i
RECURSIVE DropParens(_, _)
DropParens(s, i) ==
    IF i > Len(s) THEN <<>>
    ELSE LET p == i + SpacesAt(s, i)
             closes == { q \in (p + 1)..Len(s) : s[q] = ")" }
         IN  IF p <= Len(s) /\ s[p] = "(" /\ closes # {}
             THEN <<" ">> \o DropParens(s, SetMin(closes) + 1
                                            + SpacesAt(s, SetMin(closes) + 1))
             ELSE <<s[i]>> \o DropParens(s, i + 1)

(***************************************************************************)
(* ExportService: grouping keys                                            *)
(***************************************************************************)
\* ExportService._normalize_ingredient
_normalize_ingredient(ingredient) ==
    Then(Lower(ingredient), LAMBDA lowered : Strip(lowered))

SizeWords == { <<"l","a","r","g","e">>, <<"s","m","a","l","l">>,
              <<"m","e","d","i","u","m">>, <<"e","x","t","r","a">> }

CutWords == { <<"c","h","o","p","p","e","d">>, <<"d","i","c","e","d">>,
             <<"s","l","i","c","e","d">>, <<"m","i","n","c","e","d">>,
             <<"p","e","e","l","e","d">> }

\* spice_herbs, in the order of the list
SpiceHerbs == << <<"t","h","y","m","e">>, <<"r","o","s","e","m","a","r","y">>,
              <<"b","a","s","i","l">>, <<"o","r","e","g","a","n","o">>,
              <<"p","a","r","s","l","e","y">>,
              <<"c","i","l","a","n","t","r","o">>, <<"s","a","g","e">>,
              <<"s","a","l","t">>, <<"p","e","p","p","e","r">> >>

SpiceQualifiers == { <<"f","r","e","s","h">>, <<"d","r","i","e","d">>,
                     <<"k","o","s","h","e","r">>, <<"b","l","a","c","k">>,
                     <<"w","h","i","t","e">>, <<"g","r","o","u","n","d">> }

MinorThirdWords == { <<"l","e","a","v","e","s">>,
                     <<"p","o","w","d","e","r">>,
                     <<"f","l","a","k","e","s">>, <<"b","i","t","s">> }

\* the text of _extract_base_ingredient after its substitutions
ExportCleaned(ingredient) ==
    Then(ingredient, LAMBDA given :
    Then(DropTo(given, MeasureEnd(given, ExportUnits)), LAMBDA unmeasured :
    Then(DropTo(unmeasured, FractionEnd(unmeasured, ExportUnits)),
         LAMBDA unfractioned :
    Then(SubWords(unfractioned, 1, SizeWords, 1), LAMBDA unsized :
    Then(SubWords(unsized, 1, CutWords, 0), LAMBDA uncut :
    Then(CollapseSpaces(uncut, 1), LAMBDA spaced :
    Then(Strip(spaced), LAMBDA collapsed :
    Then(DropParens(collapsed, 1), LAMBDA bare : Strip(bare)))))))))

\* ExportService._extract_base_ingredient
_extract_base_ingredient(ingredient) ==
    LET Keyed(original, cleaned, words) ==
            LET relevant(k) ==
                    SelectSeq(words,
                        LAMBDA word :
                            \/ Lower(word) \in SpiceQualifiers
                            \/ Contains(Lower(word), SpiceHerbs[k]))
                spiced == { k \in 1..Len(SpiceHerbs) :
                              /\ Contains(Lower(cleaned), SpiceHerbs[k])
                              /\ Len(relevant(k)) > 0 }
            IN  IF Len(words) = 0 \/ Len(cleaned) < 3 THEN original
                ELSE IF spiced # {}
                THEN Join(relevant(SetMin(spiced)), <<" ">>)
                ELSE IF Len(words) <= 2 THEN cleaned
                ELSE IF Len(words) = 3 /\ Lower(words[3]) \notin MinorThirdWords
                THEN Join(words, <<" ">>)
                ELSE Join(SubSeq(words, 1, 2), <<" ">>)
    IN  Then(ingredient, LAMBDA original :
        Then(ExportCleaned(original), LAMBDA cleaned :
        Then(Split(cleaned), LAMBDA words :
        Then(Keyed(original, cleaned, words),
             LAMBDA key : Lower(key) \o <<>>))))

(***************************************************************************)
(* AIIngredientConsolidatorService: grouping keys of the fallback          *)
(***************************************************************************)
\* AIIngredientConsolidatorService._extract_base_ingredient_simple
_extract_base_ingredient_simple(ingredient) ==
    Then(ingredient, LAMBDA given :
    Then(DropTo(given, MeasureEnd(given, SimpleUnits)), LAMBDA unmeasured :
    Then(DropTo(unmeasured, FractionEnd(unmeasured, SimpleUnits)),
         LAMBDA unfractioned :
    Then(SubWords(unfractioned, 1,
                  (SizeWords \ { <<"e","x","t","r","a">> }) \cup CutWords, 0),
         LAMBDA undescribed :
    Then(CollapseSpaces(undescribed, 1), LAMBDA spaced :
    Then(Strip(spaced), LAMBDA cleaned :
    Then(Split(cleaned), LAMBDA words :
        IF Len(words) <= 2 THEN cleaned
        ELSE Join(SubSeq(words, 1, 2), <<" ">>) \o <<>>)))))))

(***************************************************************************)
(* ExportService: consolidated shopping lists                              *)
(***************************************************************************)
\* mutant of RecipeLookupRaises: get_recipe lets the not-found error of
\* read_item through
RecipeLookupRaises_Uncaught(container, meal_plan) ==
    \E j \in 1..Len(meal_plan.entries) :
        /\ TruthyStr(meal_plan.entries[j].recipe_id)
        /\ ~ HasRecipeId(container, meal_plan.entries[j].recipe_id)

\* RecipeRepository.get_recipe catches CosmosResourceNotFoundError and
\* returns None: looking up the recipes of a plan raises nothing
RecipeLookupRaises(container, meal_plan) == FALSE

\* ExportService._get_recipe_map: the recipe ids of the plan that
\* get_recipe finds
_get_recipe_map(container, meal_plan) ==
    { meal_plan.entries[j].recipe_id : j \in
        { j \in 1..Len(meal_plan.entries) :
            /\ TruthyStr(meal_plan.entries[j].recipe_id)
            /\ HasRecipeId(container, meal_plan.entries[j].recipe_id) } }

\* the recipe of recipe_map with the id
RecipeOf(container, recipe_id) ==
    container[CHOOSE i \in 1..Len(container) : container[i].id = recipe_id]

\* Recipe.get_ingredients_for_shopping_list: str items, and Ingredient
\* items with the flag
get_ingredients_for_shopping_list(recipe) ==
    LET kept == SelectSeq(recipe.ingredients,
                          LAMBDA g : ~ g.structured \/ g.includeInShoppingList)
    IN  [i \in 1..Len(kept) |-> kept[i].text]

\* Recipe.get_all_ingredients_text
get_all_ingredients_text(recipe) ==
    [i \in 1..Len(recipe.ingredients) |-> recipe.ingredients[i].text]

\* the ingredients the consolidation loops visit: entry by entry, and for
\* an entry whose recipe is in recipe_map, ingredient by ingredient
RECURSIVE ShoppingFrom(_, _, _)
ShoppingFrom(container, meal_plan, j) ==
    IF j > Len(meal_plan.entries) THEN <<>>
    ELSE (IF meal_plan.entries[j].recipe_id
                 \in _get_recipe_map(container, meal_plan)
          THEN get_ingredients_for_shopping_list(
                   RecipeOf(container, meal_plan.entries[j].recipe_id))
          ELSE <<>>)
         \o ShoppingFrom(container, meal_plan, j + 1)

\* the grouping key of an ingredient text
GroupingKey(ingredient) ==
    _extract_base_ingredient(_normalize_ingredient(ingredient))

\* sorted(keys) of a set of texts: the n-th text has n - 1 texts below it
SortedTexts(texts) ==
    [n \in 1..Cardinality(texts) |->
        CHOOSE t \in texts :
            Cardinality({ u \in texts : StrLess(u, t) }) = n - 1] \o <<>>

\* str(n) of a natural number
RECURSIVE Decimal(_)
Decimal(n) ==
    IF n < 10 THEN <<DigitChars[n + 1]>>
    ELSE Decimal(n \div 10) \o <<DigitChars[(n % 10) + 1]>>

\* f" (needed for {count} recipes)"
NeededFor(count) ==
    <<" ","(","n","e","e","d","e","d"," ","f","o","r"," ">>
        \o Decimal(count) \o <<" ","r","e","c","i","p","e","s",")">>

\* mutant of ConsolidatedLines: the text seen last is displayed
ConsolidatedLines_LastSeen(ingredients) ==
    LET Listed(keys, ordered) ==
            LET count(k) == Cardinality({ i \in 1..Len(keys) : keys[i] = k })
                named(k) == ingredients[CHOOSE i \in 1..Len(keys) :
                                            /\ keys[i] = k
                                            /\ \A h \in (i + 1)..Len(keys) :
                                                   keys[h] # k]
            IN  [n \in 1..Len(ordered) |->
                    IF count(ordered[n]) > 1
                    THEN named(ordered[n]) \o NeededFor(count(ordered[n]))
                    ELSE named(ordered[n])]
    IN  Strictly(LAMBDA keys :
                     Strictly(LAMBDA ordered : Listed(keys, ordered),
                              SortedTexts(Range(keys))),
                 [i \in 1..Len(ingredients) |->
                     GroupingKey(ingredients[i])] \o <<>>)

\* the lines of the consolidated list: ingredient_counts and
\* ingredient_base_names filled ingredient by ingredient, then one line per
\* key in sorted order
ConsolidatedLines(ingredients) ==
    LET Listed(keys, ordered) ==
            LET count(k) == Cardinality({ i \in 1..Len(keys) : keys[i] = k })
                named(k) == ingredients[SetMin({ i \in 1..Len(keys) :
                                                   keys[i] = k })]
            IN  [n \in 1..Len(ordered) |->
                    IF count(ordered[n]) > 1
                    THEN named(ordered[n]) \o NeededFor(count(ordered[n]))
                    ELSE named(ordered[n])]
    IN  Strictly(LAMBDA keys :
                     Strictly(LAMBDA ordered : Listed(keys, ordered),
                              SortedTexts(Range(keys))),
                 [i \in 1..Len(ingredients) |->
                     GroupingKey(ingredients[i])] \o <<>>)

\* ExportService.export_consolidated_ingredients: the lines that are joined
\* with "\n"
export_consolidated_ingredients(container, meal_plan) ==
    Strictly(LAMBDA ingredients : ConsolidatedLines(ingredients),
             ShoppingFrom(container, meal_plan, 1))

\* sorted(staple_items), a stable sort: an item goes after the smaller
\* items and after the equal items that come before it
SortedList(items) ==
    LET place(i) ==
            1 + Cardinality({ j \in 1..Len(items) :
                                \/ StrLess(items[j], items[i])
                                \/ j < i /\ ~ StrLess(items[i], items[j]) })
    IN  [n \in 1..Len(items) |->
            items[CHOOSE i \in 1..Len(items) : place(i) = n]] \o <<>>

\* ExportService.export_consolidated_ingredients_with_staples: the lines
\* that are joined with "\n"
export_consolidated_ingredients_with_staples(container, meal_plan, staples) ==
    LET Kept(recipe_keys) ==
            SelectSeq(staples, LAMBDA t : GroupingKey(t) \notin recipe_keys)
        Listed(ingredients) ==
            ConsolidatedLines(ingredients)
                \o Strictly(LAMBDA staple_items : SortedList(staple_items),
                            Strictly(LAMBDA recipe_keys : Kept(recipe_keys),
                                     { GroupingKey(ingredients[i]) :
                                         i \in 1..Len(ingredients) }))
    IN  Strictly(LAMBDA ingredients : Listed(ingredients),
                 ShoppingFrom(container, meal_plan, 1))

\* the lines of a text that was joined with "\n": line n lies between
\* the (n - 1)-th and the n-th line break
LinesFrom(text, breaks) ==
    LET edge(n) == CHOOSE j \in breaks :
                       Cardinality({ b \in breaks : b < j }) = n
    IN  [n \in 1..(Cardinality(breaks) - 1) |->
            SubSeq(text, edge(n - 1) + 1, edge(n) - 1)]

LinesOf(text) ==
    IF Len(text) = 0 THEN <<>>
    ELSE Strictly(LAMBDA breaks : LinesFrom(text, breaks),
                  {0, Len(text) + 1}
                      \cup { j \in 1..Len(text) : text[j] = "\n" })

\* recipe documents with the ingredient texts the exports are run on
PantryRecipe(id, title, ingredients) ==
    [id |-> id, title |-> title, meal_type |-> "dinner",
     protein_type |-> None, tags |-> {}, cook_time_min |-> NoneInt,
     ingredients |-> ingredients, last_cooked_at |-> NoneInt]

Pantry ==
    << PantryRecipe("k1", <<"P">>,
           << StrIngredient(<<"2"," ","c","u","p","s"," ","f","l","o","u","r">>),
              Ingredient(<<"M","i","l","k">>, TRUE),
              Ingredient(<<"s","a","l","t">>, FALSE) >>),
       PantryRecipe("k2", <<"Q">>,
           << StrIngredient(<<"1"," ","c","u","p"," ","f","l","o","u","r">>),
              StrIngredient(<<"1"," ","c","u","p"," ","o","j">>) >>),
       PantryRecipe("k3", <<"R">>,
           << StrIngredient(<<"2"," ","c","u","p","s"," ","o","j">>),
              StrIngredient(<<"d","i","c","e","d"," ","o","n","i","o","n">>),
              Ingredient(<<"o","n","i","o","n"," ","(","r","e","d",")">>, TRUE) >>),
       PantryRecipe("k4", <<"U">>,
           << Ingredient(<<"f","r","e","s","h"," ","b","a","s","i","l"," ","l","e","a","v","e","s">>, TRUE),
              StrIngredient(<<"1","/","2"," ","c","u","p"," ","f","l","o","u","r">>) >>) >>

\* recipe ids an entry of an exported plan names: stored recipes, no recipe,
\* and a recipe that is not stored
PantryIds == {Pantry[i].id : i \in 1..Len(Pantry)} \cup {None, "gone"}

PantryPlan(ids) ==
    [id |-> "p1", week_start_date |-> 98, dinners_per_week |-> Len(ids),
     constraints |-> PlannerDefaults,
     entries |-> [j \in 1..Len(ids) |-> Entry(97 + j, ids[j], "", FALSE)]]

PantryPlans ==
    { PantryPlan(ids) :
        ids \in UNION { [1..n -> PantryIds] : n \in 0..MaxEntries } }

\* UserProfile.staple_groceries lists
StapleLists ==
    { <<>>,
      << <<"m","i","l","k">>, <<"t","e","a">> >>,
      << <<"t","e","a">>, <<"T","e","a">>, <<"e","g","g","s">> >>,
      << <<"2"," ","c","u","p","s"," ","o","n","i","o","n">>, <<"b","a","s","i","l">> >> }

\* AIIngredientConsolidatorService.is_available
is_available(service) == service.client /\ service.feature_ai

\* GET /api/mealplans/{meal_plan_id}/export/ingredients
ExportIngredients(meal_plan_id) ==
    /\ response' =
         IF ~ HasPlanId(mealplans, meal_plan_id)
         THEN [op |-> "export_ingredients", status |-> 404]
         ELSE IF RecipeLookupRaises(recipes,
                                    get_meal_plan(mealplans, meal_plan_id))
         THEN [op |-> "export_ingredients", status |-> 500]
         ELSE [op |-> "export_ingredients", status |-> 200,
               meal_plan_id |-> meal_plan_id,
               ai_consolidation_used |-> is_available(ai),
               ingredients |->
                   Join(export_consolidated_ingredients(
                            recipes, get_meal_plan(mealplans, meal_plan_id)),
                        <<"\n">>)]
    /\ UNCHANGED <<ai, recipes, mealplans, rng, calls, returns, profile, issued>>

\* GET /api/mealplans/{meal_plan_id}/export/ingredients/with-staples
ExportIngredientsWithStaples(meal_plan_id) ==
    /\ response' =
         IF ~ HasPlanId(mealplans, meal_plan_id)
         THEN [op |-> "export_ingredients_with_staples", status |-> 404]
         ELSE IF RecipeLookupRaises(recipes,
                                    get_meal_plan(mealplans, meal_plan_id))
         THEN [op |-> "export_ingredients_with_staples", status |-> 500]
         ELSE [op |-> "export_ingredients_with_staples", status |-> 200,
               meal_plan_id |-> meal_plan_id,
               ai_consolidation_used |-> is_available(ai),
               ingredients |->
                   Join(export_consolidated_ingredients_with_staples(
                            recipes, get_meal_plan(mealplans, meal_plan_id),
                            profile.staple_groceries),
                        <<"\n">>)]
    /\ UNCHANGED <<ai, recipes, mealplans, rng, calls, returns, profile, issued>>

(***************************************************************************)
(* SpecExport: the consolidated exports of one stored plan                 *)
(***************************************************************************)
InitExport ==
    /\ recipes = Pantry
    /\ mealplans \in { <<meal_plan>> : meal_plan \in PantryPlans }
    /\ rng = 0
    /\ calls = [c \in Callers |-> Idle]
    /\ returns = <<>>
    /\ profile \in { [staple_groceries |-> staples] : staples \in StapleLists }
    /\ issued = 0
    /\ ai = AIOff
    /\ response = NoResponse

NextExport ==
    \/ \E meal_plan_id \in PlanIdsNamed(mealplans) :
           ExportIngredients(meal_plan_id)
    \/ \E meal_plan_id \in PlanIdsNamed(mealplans) :
           ExportIngredientsWithStaples(meal_plan_id)

SpecExport == InitExport /\ [][NextExport]_vars

(***************************************************************************)
(* C15  Lines of the consolidated list                                     *)
(***************************************************************************)
ExportAnswered ==
    response.op = "export_ingredients" /\ response.status = 200

\* the plan the answered export read
ExportedPlan == get_meal_plan(mealplans, response.meal_plan_id)

\* the shopping-list ingredients of the exported plan, entry order then
\* ingredient order
Shopping == ShoppingFrom(recipes, ExportedPlan, 1)

KeysOf(texts) == { GroupingKey(texts[i]) : i \in 1..Len(texts) }

CountOf(texts, k) ==
    Cardinality({ i \in 1..Len(texts) : GroupingKey(texts[i]) = k })

FirstSeen(texts, k) ==
    texts[SetMin({ i \in 1..Len(texts) : GroupingKey(texts[i]) = k })]

\* position of key k among the keys in ascending order
PositionOf(keys, k) == 1 + Cardinality({ u \in keys : StrLess(u, k) })

\* one line per key, in ascending key order, each the first-seen text with
\* the suffix iff the count is above one
ListedByKey(lines, texts) ==
    /\ Len(lines) = Cardinality(KeysOf(texts))
    /\ \A k \in KeysOf(texts) :
           lines[PositionOf(KeysOf(texts), k)] =
               IF CountOf(texts, k) > 1
               THEN FirstSeen(texts, k) \o NeededFor(CountOf(texts, k))
               ELSE FirstSeen(texts, k)

\* a text that starts with a quantity token and a unit token, followed by
\* something
IsQuantity(word) ==
    /\ Len(word) > 0
    /\ \A i \in 1..Len(word) :
           IsDigit(word[i]) \/ word[i] = "/" \/ word[i] = HalfSign

IsWholeNumber(word) ==
    Len(word) > 0 /\ \A i \in 1..Len(word) : IsDigit(word[i])

HasMeasure(text) ==
    LET words == Split(text)
    IN  /\ Len(words) >= 3
        /\ IsQuantity(words[1])
        /\ Lower(words[2]) \in ExportUnits

HasWholeMeasure(text) == HasMeasure(text) /\ IsWholeNumber(Split(text)[1])

AfterMeasure(text) == SubSeq(Split(text), 3, Len(Split(text)))

DifferOnlyInMeasure(a, b) ==
    /\ HasMeasure(a)
    /\ HasMeasure(b)
    /\ AfterMeasure(a) = AfterMeasure(b)

RecipesNeeding(k) ==
    { recipe_id \in _get_recipe_map(recipes, ExportedPlan) :
        \E text \in Range(get_ingredients_for_shopping_list(
                              RecipeOf(recipes, recipe_id))) :
            GroupingKey(text) = k }

\* C16: in the answered list, a line that ends in " (needed for N recipes)"
\* has N equal to the number of distinct recipes of the plan with a
\* shopping-list ingredient of the line's grouping key.
C16_SuffixCountsRecipes ==
    ExportAnswered =>
        \A k \in KeysOf(Shopping), n \in 2..Len(Shopping) :
            LinesOf(response.ingredients)[PositionOf(KeysOf(Shopping), k)]
                    = FirstSeen(Shopping, k) \o NeededFor(n)
                => n = Cardinality(RecipesNeeding(k))

(***************************************************************************)
(* C17  Staples in the consolidated list                                   *)
(***************************************************************************)
StaplesAnswered ==
    response.op = "export_ingredients_with_staples" /\ response.status = 200

\* the lines after the recipe-derived lines
StapleLines ==
    LET lines == LinesOf(response.ingredients)
    IN  SubSeq(lines, Cardinality(KeysOf(Shopping)) + 1, Len(lines))

\* how often text x occurs in the sequence
Occurrences(texts, x) == Cardinality({ i \in 1..Len(texts) : texts[i] = x })

\* the recipe-derived lines come first, the staples whose key is no
\* recipe-derived key follow, sorted
StaplesAppended ==
    LET lines == LinesOf(response.ingredients)
        first == Cardinality(KeysOf(Shopping))
        staples == profile.staple_groceries
    IN  /\ Len(lines) >= first
        /\ ListedByKey(SubSeq(lines, 1, first), Shopping)
        /\ \A i \in 1..(Len(StapleLines) - 1) :
               ~ StrLess(StapleLines[i + 1], StapleLines[i])
        /\ \A x \in Range(staples) \cup Range(StapleLines) :
               Occurrences(StapleLines, x) =
                   IF GroupingKey(x) \in KeysOf(Shopping) THEN 0
                   ELSE Occurrences(staples, x)

\* C17: in the answered list with staples, the staples follow the
\* recipe-derived lines and are sorted, a staple whose grouping key is a
\* recipe-derived key is left out, and no two lines have the same grouping
\* key.
C17_NoTwoLinesWithOneKey ==
    StaplesAnswered =>
        /\ StaplesAppended
        /\ \A i, j \in 1..Len(StapleLines) :
               i # j => GroupingKey(StapleLines[i]) # GroupingKey(StapleLines[j])

(***************************************************************************)
(* AIIngredientConsolidatorService                                         *)
(***************************************************************************)
\* the quantity text of a fallback item
FallbackQuantity(count) ==
    IF count > 1
    THEN <<"n","e","e","d","e","d"," ","f","o","r"," ">> \o Decimal(count)
             \o <<" ","r","e","c","i","p","e","s">>
    ELSE <<"1"," ","r","e","c","i","p","e">>

\* the grouping key of the fallback
SimpleKey(ingredient) ==
    _extract_base_ingredient_simple(
        Then(Lower(ingredient), LAMBDA lowered : Strip(lowered)))

\* AIIngredientConsolidatorService._fallback_consolidation
_fallback_consolidation(ingredient_list) ==
    LET keys == [i \in 1..Len(ingredient_list) |->
                    SimpleKey(ingredient_list[i])]
        ordered == SortedTexts(Range(keys))
        count(k) == Cardinality({ i \in 1..Len(keys) : keys[i] = k })
    IN  [n \in 1..Len(ordered) |->
            [ingredient |-> ordered[n],
             quantity |-> FallbackQuantity(count(ordered[n]))]]

\* what the chat completion does: "raises" (the request fails), "malformed"
\* (instructor cannot validate the reply against
\* IngredientConsolidationResult and raises), "answers"
AIServices == {"raises", "malformed", "answers"}

\* mutant of consolidate_ingredients: no except clause around the AI call
consolidate_ingredients_Unguarded(service, ingredient_list, answer) ==
    IF ~ is_available(service)
    THEN [raised |-> FALSE,
          result |-> _fallback_consolidation(ingredient_list)]
    ELSE IF Len(ingredient_list) = 0
    THEN [raised |-> FALSE, result |-> <<>>]
    ELSE IF service.service \in {"raises", "malformed"}
    THEN [raised |-> TRUE, result |-> <<>>]
    ELSE [raised |-> FALSE, result |-> answer]

\* AIIngredientConsolidatorService.consolidate_ingredients: [raised, result];
\* answer is response.consolidated_ingredients of a validated reply
consolidate_ingredients(service, ingredient_list, answer) ==
    IF ~ is_available(service)
    THEN [raised |-> FALSE,
          result |-> _fallback_consolidation(ingredient_list)]
    ELSE IF Len(ingredient_list) = 0
    THEN [raised |-> FALSE, result |-> <<>>]
    ELSE IF service.service \in {"raises", "malformed"}
    THEN [raised |-> FALSE,
          result |-> _fallback_consolidation(ingredient_list)]
    ELSE [raised |-> FALSE, result |-> answer]

\* ingredient texts handed to the consolidator
IngredientTexts ==
    { <<"o","l","i","v","e"," ","o","i","l"," ","s","p","r","a","y">>,
      <<"o","l","i","v","e"," ","o","i","l">>,
      <<"1"," ","c","u","p"," ","f","l","o","u","r">> }

IngredientLists ==
    UNION { [1..n -> IngredientTexts] : n \in 0..MaxIngredients }

\* validated replies of the AI
AIAnswers ==
    { <<>>,
      << [ingredient |-> <<"f","l","o","u","r">>,
          quantity |-> <<"3"," ","c","u","p","s">>] >> }

\* one call of consolidate_ingredients
Consolidate(ingredient_list, answer) ==
    /\ LET outcome == consolidate_ingredients(ai, ingredient_list, answer)
       IN  response' = [op |-> "consolidate_ingredients",
                        ingredient_list |-> ingredient_list,
                        raised |-> outcome.raised,
                        result |-> outcome.result]
    /\ UNCHANGED <<ai, recipes, mealplans, rng, calls, returns, profile,
                   issued>>

(***************************************************************************)
(* SpecAI: calls of the AI consolidator                                    *)
(***************************************************************************)
InitAI ==
    /\ recipes = <<>>
    /\ mealplans = <<>>
    /\ rng = 0
    /\ calls = [c \in Callers |-> Idle]
    /\ returns = <<>>
    /\ profile = [staple_groceries |-> <<>>]
    /\ issued = 0
    /\ ai \in [client : BOOLEAN, feature_ai : BOOLEAN, service : AIServices]
    /\ response = NoResponse

NextAI ==
    \E ingredient_list \in IngredientLists, answer \in AIAnswers :
        Consolidate(ingredient_list, answer)

SpecAI == InitAI /\ [][NextAI]_vars

(***************************************************************************)
(* C18  The fallback against the export heuristic                          *)
(***************************************************************************)
Consolidated == response.op = "consolidate_ingredients"

\* the call did not get a validated reply of the AI
AIUnusable == ~ is_available(ai) \/ ai.service \in {"raises", "malformed"}

\* C18: a result produced while the AI is disabled or fails has one item
\* per grouping key of the export heuristic, groups the ingredients as that
\* heuristic does, and counts each group as it does.
C18_FallbackGroupsAsExport ==
    (Consolidated /\ AIUnusable /\ ~ response.raised) =>
        LET list == response.ingredient_list
            result == response.result
        IN  /\ Len(result) = Cardinality(KeysOf(list))
            /\ \A i, j \in 1..Len(list) :
                   (SimpleKey(list[i]) = SimpleKey(list[j]))
                       <=> (GroupingKey(list[i]) = GroupingKey(list[j]))
            /\ \A i \in 1..Len(list) :
                   \E n \in 1..Len(result) :
                       /\ result[n].ingredient = SimpleKey(list[i])
                       /\ result[n].quantity = FallbackQuantity(
                              CountOf(list, GroupingKey(list[i])))

(***************************************************************************)
(* C19  The consolidator never raises                                      *)
(***************************************************************************)
\* C19: consolidate_ingredients does not raise, and when the AI is
\* unavailable, or its call raises or yields a malformed reply, the result
\* is the fallback consolidation of the same list.
C19_FallsBackWithoutRaising ==
    Consolidated =>
        /\ ~ response.raised
        /\ AIUnusable =>
               response.result =
                   _fallback_consolidation(response.ingredient_list)

\* a call with the AI available whose reply was malformed, for a list of
\* two ingredients
C19_Witness ==
    /\ Consolidated
    /\ is_available(ai)
    /\ ai.service = "malformed"
    /\ Len(response.ingredient_list) = 2
    /\ Len(response.result) >= 1
    /\ response.result = _fallback_consolidation(response.ingredient_list)

(***************************************************************************)
(* ExportService: the exports of the plan's days                           *)
(***************************************************************************)
\* recipe_map.get(entry.recipe_id) if entry.recipe_id else None: whether
\* the entry has a recipe in recipe_map
EntryHasRecipe(container, meal_plan, j) ==
    meal_plan.entries[j].recipe_id \in _get_recipe_map(container, meal_plan)

EntryRecipe(container, meal_plan, j) ==
    RecipeOf(container, meal_plan.entries[j].recipe_id)

NoRecipeName == <<"N","o"," ","r","e","c","i","p","e">>

NoRecipePlanned == <<"N","o"," ","r","e","c","i","p","e"," ","p","l","a","n","n","e","d">>

\* ExportService.export_meal_plan_csv: the rows after the header
export_meal_plan_csv(container, meal_plan) ==
    [j \in 1..Len(meal_plan.entries) |->
        [date |-> meal_plan.entries[j].date,
         recipe_name |-> IF EntryHasRecipe(container, meal_plan, j)
                         THEN EntryRecipe(container, meal_plan, j).title
                         ELSE NoRecipeName,
         ingredients |-> IF EntryHasRecipe(container, meal_plan, j)
                         THEN Join(get_all_ingredients_text(
                                       EntryRecipe(container, meal_plan, j)),
                                   <<";", " ">>)
                         ELSE <<>>,
         notes |-> meal_plan.entries[j].notes]]

\* ExportService.export_meal_plan_json: export_data
export_meal_plan_json(container, meal_plan) ==
    [meal_plan |-> [id |-> meal_plan.id,
                    week_start_date |-> meal_plan.week_start_date,
                    dinners_per_week |-> meal_plan.dinners_per_week],
     entries |->
        [j \in 1..Len(meal_plan.entries) |->
            [date |-> meal_plan.entries[j].date,
             notes |-> meal_plan.entries[j].notes,
             locked |-> meal_plan.entries[j].locked,
             recipe |->
                 IF EntryHasRecipe(container, meal_plan, j)
                 THEN LET recipe == EntryRecipe(container, meal_plan, j)
                      IN  [id |-> recipe.id, title |-> recipe.title,
                           ingredients |-> get_all_ingredients_text(recipe),
                           tags |-> recipe.tags,
                           protein_type |-> recipe.protein_type,
                           cook_time_min |-> recipe.cook_time_min]
                 ELSE None]]]

\* ExportService.export_meal_plan_txt: the day blocks, then the blocks of
\* the shopping list
export_meal_plan_txt(container, meal_plan) ==
    LET listed == SelectSeq([j \in 1..Len(meal_plan.entries) |-> j],
                     LAMBDA j :
                         /\ EntryHasRecipe(container, meal_plan, j)
                         /\ Len(get_all_ingredients_text(
                                    EntryRecipe(container, meal_plan, j))) > 0)
    IN  [days |->
            [j \in 1..Len(meal_plan.entries) |->
                [date |-> meal_plan.entries[j].date,
                 line |-> IF EntryHasRecipe(container, meal_plan, j)
                          THEN EntryRecipe(container, meal_plan, j).title
                          ELSE NoRecipePlanned,
                 notes |-> meal_plan.entries[j].notes]],
         shopping |->
            [n \in 1..Len(listed) |->
                [title |-> EntryRecipe(container, meal_plan, listed[n]).title,
                 ingredients |->
                     get_all_ingredients_text(
                         EntryRecipe(container, meal_plan, listed[n]))]]]

\* ExportService.export_meal_plan_ics: the VEVENTs, one per entry with a
\* recipe
export_meal_plan_ics(container, meal_plan) ==
    LET events == SelectSeq([j \in 1..Len(meal_plan.entries) |-> j],
                      LAMBDA j : EntryHasRecipe(container, meal_plan, j))
    IN  [n \in 1..Len(events) |->
            [uid |-> <<meal_plan.id, meal_plan.entries[events[n]].date,
                       meal_plan.entries[events[n]].recipe_id>>,
             date |-> meal_plan.entries[events[n]].date,
             summary |-> EntryRecipe(container, meal_plan, events[n]).title,
             ingredients |->
                 get_all_ingredients_text(
                     EntryRecipe(container, meal_plan, events[n]))]]

\* what an export endpoint answers: 404 without the plan, 500 when the
\* export raises, else the content
ExportResponse(op, meal_plan_id, content) ==
    IF ~ HasPlanId(mealplans, meal_plan_id)
    THEN [op |-> op, status |-> 404]
    ELSE IF RecipeLookupRaises(recipes, get_meal_plan(mealplans, meal_plan_id))
    THEN [op |-> op, status |-> 500]
    ELSE [op |-> op, status |-> 200, meal_plan_id |-> meal_plan_id,
          content |-> content]

\* GET /api/mealplans/{meal_plan_id}/export.csv
ExportCsv(meal_plan_id) ==
    /\ response' =
         ExportResponse("export_csv", meal_plan_id,
             export_meal_plan_csv(recipes,
                                  get_meal_plan(mealplans, meal_plan_id)))
    /\ UNCHANGED <<ai, recipes, mealplans, rng, calls, returns, profile,
                   issued>>

\* GET /api/mealplans/{meal_plan_id}/export.json
ExportJson(meal_plan_id) ==
    /\ response' =
         ExportResponse("export_json", meal_plan_id,
             export_meal_plan_json(recipes,
                                   get_meal_plan(mealplans, meal_plan_id)))
    /\ UNCHANGED <<ai, recipes, mealplans, rng, calls, returns, profile,
                   issued>>

\* GET /api/mealplans/{meal_plan_id}/export.txt
ExportTxt(meal_plan_id) ==
    /\ response' =
         ExportResponse("export_txt", meal_plan_id,
             export_meal_plan_txt(recipes,
                                  get_meal_plan(mealplans, meal_plan_id)))
    /\ UNCHANGED <<ai, recipes, mealplans, rng, calls, returns, profile,
                   issued>>

\* GET /api/mealplans/{meal_plan_id}/export.ics
ExportIcs(meal_plan_id) ==
    /\ response' =
         ExportResponse("export_ics", meal_plan_id,
             export_meal_plan_ics(recipes,
                                  get_meal_plan(mealplans, meal_plan_id)))
    /\ UNCHANGED <<ai, recipes, mealplans, rng, calls, returns, profile,
                   issued>>

(***************************************************************************)
(* POST /api/mealplans/generate                                            *)
(***************************************************************************)
\* what the endpoint answers for a finished call of the planner, and the
\* generator state the call leaves
GenerateOutcome(request) ==
    LET started == AfterEligible([pc |-> "await_eligible",
                                  request |-> request], recipes)
        done == AfterRecent(started, mealplans, Seeded(request))
    IN  IF started.pc = "raised"
        THEN [response |-> [op |-> "generate", status |-> 500,
                            request |-> request],
              rng |-> Seeded(request)]
        ELSE IF started.pc = "returned"
        THEN [response |-> [op |-> "generate", status |-> 200,
                            request |-> request, result |-> started.result],
              rng |-> Seeded(request)]
        ELSE [response |-> [op |-> "generate", status |-> 200,
                            request |-> request, result |-> done.call.result],
              rng |-> done.rng]

\* mutant of Generate: the endpoint stores what it generated, as the save
\* endpoint does
Generate_Saving(request) ==
    /\ issued < Len(NewIds)
    /\ LET outcome == GenerateOutcome(request)
           entries == IF outcome.response.status = 200
                      THEN outcome.response.result.entries ELSE <<>>
       IN  /\ response' = outcome.response
           /\ rng' = outcome.rng
           /\ mealplans' =
                  create_meal_plan(mealplans,
                      [week_start_date |-> request.week_start_date,
                       dinners_per_week |-> request.dinners_per_week,
                       constraints |-> request.constraints,
                       entries |-> entries],
                      NewIds[issued + 1])
           /\ recipes' = ApplyRecipeUpdates(recipes, RecipeUpdates(entries))
    /\ issued' = issued + 1
    /\ UNCHANGED <<ai, calls, returns, profile>>

\* the endpoint runs the planner once and returns its result, or answers
\* 500 when the planner raises
Generate(request) ==
    /\ LET outcome == GenerateOutcome(request)
       IN  /\ response' = outcome.response
           /\ rng' = outcome.rng
    /\ UNCHANGED <<ai, recipes, mealplans, calls, returns, profile, issued>>

(***************************************************************************)
(* SpecService: recipes are deleted while plans are saved, generated and   *)
(* exported                                                                *)
(***************************************************************************)
\* the catalog of the service: three dinner recipes
ServiceCatalog == <<Shelf[3], Shelf[4], Shelf[6]>>

\* MealPlanCreate bodies: two dinners of a week
ServiceBodies ==
    { [week_start_date |-> 98, dinners_per_week |-> 2,
       constraints |-> PlannerDefaults,
       entries |-> <<Entry(98, "r2", "", FALSE), Entry(99, "r5", "n", FALSE)>>],
      [week_start_date |-> 91, dinners_per_week |-> 2,
       constraints |-> PlannerDefaults,
       entries |-> <<Entry(91, "r3", "", FALSE), Entry(92, None, "", FALSE)>>] }

\* MealPlanGenerate bodies for the week after, with the saved weeks inside
\* the four weeks of avoid_repeat_weeks
ServiceRequests ==
    { [week_start_date |-> 105, dinners_per_week |-> 2,
       constraints |-> DefaultConstraints, existing_entries |-> <<>>,
       seed |-> seed] : seed \in {NoneInt, 1} }

ServiceRecipeIds == {"r2", "r3"}

InitService ==
    /\ recipes = ServiceCatalog
    /\ mealplans = <<>>
    /\ rng \in 0..1
    /\ calls = [c \in Callers |-> Idle]
    /\ returns = <<>>
    /\ profile = [staple_groceries |-> << <<"E","g","g">>, <<"t","e","a">> >>]
    /\ issued = 0
    /\ ai = AIOff
    /\ response = NoResponse

NextService ==
    \/ \E meal_plan_data \in ServiceBodies : SavePlan(meal_plan_data)
    \/ \E recipe_id \in ServiceRecipeIds : DeleteRecipe(recipe_id)
    \/ \E request \in ServiceRequests : Generate(request)
    \/ \E meal_plan_id \in PlanIdsNamed(mealplans) : ExportCsv(meal_plan_id)
    \/ \E meal_plan_id \in PlanIdsNamed(mealplans) : ExportJson(meal_plan_id)
    \/ \E meal_plan_id \in PlanIdsNamed(mealplans) : ExportTxt(meal_plan_id)
    \/ \E meal_plan_id \in PlanIdsNamed(mealplans) : ExportIcs(meal_plan_id)
    \/ \E meal_plan_id \in PlanIdsNamed(mealplans) :
           ExportIngredients(meal_plan_id)
    \/ \E meal_plan_id \in PlanIdsNamed(mealplans) :
           ExportIngredientsWithStaples(meal_plan_id)

SpecService == InitService /\ [][NextService]_vars

(***************************************************************************)
(* C20  generate is a dry run                                              *)
(***************************************************************************)
\* C20: a step in which the generate endpoint answers leaves the recipes
\* container, with every last_cooked_at, and the mealplans container as
\* they were.
C20_GenerateIsDryRun ==
    [][response'.op = "generate" => UNCHANGED <<recipes, mealplans>>]_vars

\* the generate endpoint has answered with a plan of two filled dinners,
\* with a plan stored and a last_cooked_at set by an earlier save
C20_Witness ==
    /\ response.op = "generate"
    /\ response.status = 200
    /\ Len(response.result.entries) = 2
    /\ \A j \in 1..2 : TruthyStr(response.result.entries[j].recipe_id)
    /\ Len(mealplans) >= 1
    /\ \E i \in 1..Len(recipes) : recipes[i].last_cooked_at # NoneInt

(***************************************************************************)
(* C14  A plan that names a deleted recipe                                 *)
(***************************************************************************)
DayExports == {"export_csv", "export_json", "export_txt", "export_ics"}

ListExports == {"export_ingredients", "export_ingredients_with_staples"}

\* the entries of the plan whose recipe is not in the recipes container
Dangling(meal_plan) ==
    { j \in 1..Len(meal_plan.entries) :
        /\ TruthyStr(meal_plan.entries[j].recipe_id)
        /\ ~ HasRecipeId(recipes, meal_plan.entries[j].recipe_id) }

\* the plan with its dangling entries emptied
WithoutDangling(meal_plan) ==
    [meal_plan EXCEPT !.entries =
        [j \in 1..Len(meal_plan.entries) |->
            IF j \in Dangling(meal_plan)
            THEN [meal_plan.entries[j] EXCEPT !.recipe_id = None]
            ELSE meal_plan.entries[j]]]

\* the day export shows entry j without a recipe and without ingredients
ShownAbsent(op, content, meal_plan, j) ==
    CASE op = "export_csv" ->
           /\ content[j].recipe_name = NoRecipeName
           /\ content[j].ingredients = <<>>
      [] op = "export_json" -> content.entries[j].recipe = None
      [] op = "export_txt" ->
           /\ content.days[j].line = NoRecipePlanned
           /\ Len(content.shopping) <=
                  Cardinality((1..Len(meal_plan.entries))
                                  \ Dangling(meal_plan))
      [] op = "export_ics" ->
           /\ \A n \in 1..Len(content) :
                  content[n].uid[3] # meal_plan.entries[j].recipe_id
           /\ Len(content) <=
                  Cardinality((1..Len(meal_plan.entries))
                                  \ Dangling(meal_plan))

\* C14: with recipes deleted that stored plans name, every export of a
\* stored plan answers 200, shows the entries of deleted recipes without a
\* recipe and takes no ingredient from them; generate answers 200 with the
\* result it has when those entries are empty; saving a plan answers 200
\* and stores the plan.
C14_DeletedRecipeIsAbsent ==
    /\ (response.op \in DayExports /\ response.status # 404) =>
           /\ response.status = 200
           /\ \A j \in Dangling(get_meal_plan(mealplans,
                                              response.meal_plan_id)) :
                  ShownAbsent(response.op, response.content,
                              get_meal_plan(mealplans, response.meal_plan_id),
                              j)
    /\ (response.op \in ListExports /\ response.status # 404) =>
           /\ response.status = 200
           /\ ShoppingFrom(recipes, ExportedPlan, 1)
                  = ShoppingFrom(recipes, WithoutDangling(ExportedPlan), 1)
           /\ response.op = "export_ingredients" =>
                  LinesOf(response.ingredients) =
                      export_consolidated_ingredients(
                          recipes, WithoutDangling(ExportedPlan))
           /\ response.op = "export_ingredients_with_staples" =>
                  LinesOf(response.ingredients) =
                      export_consolidated_ingredients_with_staples(
                          recipes, WithoutDangling(ExportedPlan),
                          profile.staple_groceries)
    /\ response.op = "generate" =>
           /\ response.status = 200
           /\ response.result =
                  RunAlone(response.request, recipes,
                           [i \in 1..Len(mealplans) |->
                               WithoutDangling(mealplans[i])]).result
           /\ \A j \in 1..Len(response.result.entries) :
                  \/ response.result.entries[j].recipe_id = None
                  \/ HasRecipeId(recipes,
                                 response.result.entries[j].recipe_id)
    /\ response.op = "create_meal_plan" =>
           /\ response.status = 200
           /\ HasPlanId(mealplans, response.meal_plan.id)

\* the text export of a stored plan has answered after recipe r2, which
\* the plan names, was deleted, while the plan's other recipe is stored
C14_Witness ==
    /\ response.op = "export_txt"
    /\ response.status = 200
    /\ ~ HasRecipeId(recipes, "r2")
    /\ \E j \in Dangling(get_meal_plan(mealplans, response.meal_plan_id)) :
           get_meal_plan(mealplans, response.meal_plan_id)
               .entries[j].recipe_id = "r2"
    /\ Len(response.content.shopping) >= 1

(***************************************************************************)
(* C21  Required recipes and meal types                                    *)
(***************************************************************************)
\* the call holds the list _get_eligible_recipes returned
GotEligible(c) == calls[c].pc \in {"await_recent", "returned"}

\* C21: in the list _get_eligible_recipes returns, every stored recipe whose
\* id is in required_recipes and whose meal type is breakfast, lunch or
\* dinner is present, whatever its tags, ingredients and cook time, and no
\* recipe of meal type snack or misc is present, even when it is listed in
\* required_recipes.
C21_RequiredKeptSnackNever ==
    \A c \in Callers :
        GotEligible(c) =>
            \A r \in Range(recipes) :
                /\ r.id \in calls[c].request.constraints.required_recipes
                   /\ r.meal_type \in {"breakfast", "lunch", "dinner"}
                   => r \in EligibleSet(c)
                /\ r.meal_type \in {"snack", "misc"} => r \notin EligibleSet(c)

\* a required dinner that carries an excluded tag, an excluded ingredient,
\* too long a cook time and no included tag is eligible, next to a required
\* snack that is not
C21_Witness ==
    \E c \in Callers :
        /\ GotEligible(c)
        /\ LET k == calls[c].request.constraints
           IN  \E r, s \in Range(recipes) :
                   /\ r.id \in k.required_recipes
                   /\ r \in EligibleSet(c)
                   /\ r.tags \cap k.exclude_tags # {}
                   /\ k.include_tags # {} /\ r.tags \cap k.include_tags = {}
                   /\ r.cook_time_min > k.max_cook_time_min
                   /\ k.max_cook_time_min > 0
                   /\ \E x \in Range(k.exclude_ingredients) :
                          \E i \in 1..Len(r.ingredients) :
                              Contains(Lower(r.ingredients[i].text), Lower(x))
                   /\ s.id \in k.required_recipes
                   /\ s.meal_type = "snack"
                   /\ s \notin EligibleSet(c)

(***************************************************************************)
(* C22  Maximum cook time                                                  *)
(***************************************************************************)
\* C22 as claimed: an eligible recipe that is not in required_recipes and
\* has cook_time_min set (0 or more) has cook_time_min <= max_cook_time_min
\* whenever max_cook_time_min is set (0 or more).
C22_EligibleWithinMaxCookTime ==
    \A c \in Callers :
        GotEligible(c) =>
            \A r \in EligibleSet(c) :
                /\ r.id \notin calls[c].request.constraints.required_recipes
                /\ r.cook_time_min # NoneInt
                /\ calls[c].request.constraints.max_cook_time_min # NoneInt
                => r.cook_time_min
                       <= calls[c].request.constraints.max_cook_time_min

(***************************************************************************)
(* C23  exclude_ingredients with structured ingredients                    *)
(***************************************************************************)
\* C23 as claimed: with a non-empty exclude_ingredients list
\* generate_meal_plan does not raise, whether the stored recipes keep their
\* ingredients as plain strings or as {text, includeInShoppingList} objects.
C23_ExcludeIngredientsNeverRaises ==
    \A c \in Callers :
        calls[c].pc # "idle"
        /\ Len(calls[c].request.constraints.exclude_ingredients) > 0
        => calls[c].pc # "raised"

(***************************************************************************)
(* C24  Recency only deprioritizes                                         *)
(***************************************************************************)
\* the eligible recipes not yet used in the plan when the loop reaches
\* date j
AvailableAt(c, j) ==
    { r \in EligibleSet(c) : r.id \notin calls[c].steps[j].used_recipe_ids }

\* C24: on a date the call fills itself, _select_recipe returns a recipe of
\* the recency set only when every eligible recipe not yet used in the plan
\* is in the recency set, and it returns no recipe only when no eligible
\* recipe is left unused.
C24_RecencyOnlyDeprioritizes ==
    \A c \in Callers :
        Planned(c) =>
            \A j \in 1..Len(Entries(c)) :
                Filled(c, j) =>
                    /\ HasRecipe(Entries(c)[j])
                       /\ Entries(c)[j].recipe_id \in calls[c].recently_used
                       => \A r \in AvailableAt(c, j) :
                              r.id \in calls[c].recently_used
                    /\ ~ HasRecipe(Entries(c)[j]) => AvailableAt(c, j) = {}

\* a plan with one date that got a recent recipe because only recent
\* recipes were left, after a date where a recent recipe was passed over
C24_Witness ==
    \E c \in Callers :
        /\ Planned(c)
        /\ \E j, k \in 1..Len(Entries(c)) :
               /\ Filled(c, j) /\ Filled(c, k)
               /\ HasRecipe(Entries(c)[j]) /\ HasRecipe(Entries(c)[k])
               /\ Entries(c)[j].recipe_id \notin calls[c].recently_used
               /\ \E r \in AvailableAt(c, j) : r.id \in calls[c].recently_used
               /\ Entries(c)[k].recipe_id \in calls[c].recently_used

C25_RecipesExactlyOnce ==
    \A c \in Callers :
        Planned(c) =>
            LET listed == calls[c].result.recipes
                named == { Entries(c)[j].recipe_id :
                             j \in { k \in 1..Len(Entries(c)) :
                                       Entries(c)[k].recipe_id # None } }
            IN  /\ \A rid \in named :
                       Cardinality({ i \in 1..Len(listed) :
                                       listed[i].id = rid }) = 1
                /\ \A i \in 1..Len(listed) : listed[i].id \in named

(***************************************************************************)
(* SpecKeys: the grouping keys of ingredient texts, computed as the        *)
(* consolidated exports compute them (the text is normalized, then its     *)
(* base ingredient is extracted)                                           *)
(***************************************************************************)
\* ingredient texts as recipes hold them
KeyTexts ==
    { <<"O","l","i","v","e"," ","o","i","l">>,
      <<"2"," ","c","u","p","s"," ","b","a","b","y"," ","s","p","i","n","a","c","h"," ","l","e","a","v","e","s">>,
      <<"g","r","e","e","n"," ","o","n","i","o","n"," ","t","o","p","s">>,
      <<"e","x","t","r","a"," ","v","i","r","g","i","n"," ","o","l","i","v","e"," ","o","i","l"," ","b","l","e","n","d">>,
      <<"1"," ","c","u","p"," ","o","j">>,
      <<"d","i","c","e","d">>,
      <<"u","n","s","a","l","t","e","d"," ","b","u","t","t","e","r">>,
      <<"I","t","a","l","i","a","n"," ","s","a","u","s","a","g","e"," ","l","i","n","k","s">>,
      <<"d","r","i","e","d"," ","t","h","y","m","e">>,
      <<"f","r","e","s","h"," ","t","h","y","m","e">>,
      <<"1"," ","t","s","p"," ","d","r","i","e","d"," ","t","h","y","m","e">>,
      <<"f","r","e","s","h"," ","t","h","y","m","e"," ","s","p","r","i","g","s">>,
      <<"k","o","s","h","e","r"," ","s","a","l","t">>,
      <<"s","a","l","t"," ","a","n","d"," ","p","e","p","p","e","r">> }

MentionLists ==
    UNION { [1..n -> KeyTexts] : n \in 1..MaxMentions }

\* exports.py:150-155 for the shopping-list ingredients of a stored recipe:
\* the normalized text, the text after the substitutions of
\* _extract_base_ingredient, and the key
ExtractKeys(recipe_id) ==
    /\ HasRecipeId(recipes, recipe_id)
    /\ LET ingredients ==
               get_ingredients_for_shopping_list(RecipeOf(recipes, recipe_id))
           normalized == [i \in 1..Len(ingredients) |->
                             _normalize_ingredient(ingredients[i])] \o <<>>
       IN  response' =
               [op |-> "_extract_base_ingredient",
                ingredients |-> normalized,
                cleaned |-> [i \in 1..Len(ingredients) |->
                                ExportCleaned(normalized[i])],
                keys |-> [i \in 1..Len(ingredients) |->
                             _extract_base_ingredient(normalized[i])]]
    /\ UNCHANGED <<ai, recipes, mealplans, rng, calls, returns, profile, issued>>

InitKeys ==
    /\ recipes \in { << PantryRecipe("k1", <<"P">>,
                           [i \in 1..Len(texts) |-> StrIngredient(texts[i])]) >> :
                     texts \in MentionLists }
    /\ mealplans = <<>>
    /\ rng = 0
    /\ calls = [c \in Callers |-> Idle]
    /\ returns = <<>>
    /\ profile = [staple_groceries |-> <<>>]
    /\ issued = 0
    /\ ai = AIOff
    /\ response = NoResponse

NextKeys == \E recipe_id \in {"k1"} : ExtractKeys(recipe_id)

SpecKeys == InitKeys /\ [][NextKeys]_vars

(***************************************************************************)
(* C26  Keys of non-spice ingredients                                      *)
(***************************************************************************)
KeysExtracted == response.op = "_extract_base_ingredient"

\* the words of the i-th text after the substitutions
CleanedWords(i) == Split(response.cleaned[i])

\* the listed spices and herbs that are a word of the i-th text
NamedSpices(i) ==
    { k \in 1..Len(SpiceHerbs) : SpiceHerbs[k] \in Range(CleanedWords(i)) }

\* the key the word-count rule gives the i-th text
ByWordCount(i) ==
    LET cleaned == response.cleaned[i]
        words == CleanedWords(i)
    IN  IF Len(words) = 0 \/ Len(cleaned) < 3 THEN response.ingredients[i]
        ELSE IF Len(words) <= 2 THEN cleaned
        ELSE IF Len(words) = 3 /\ words[3] \notin MinorThirdWords
        THEN Join(words, <<" ">>)
        ELSE Join(SubSeq(words, 1, 2), <<" ">>)

\* C26 as claimed: the key of an ingredient that names no listed spice or
\* herb is the stripped phrase when it has at most 2 words, its 3 words
\* when it has 3 and the third is not leaves/powder/flakes/bits, else its
\* first 2 words; and the original lower-cased text when the stripped
\* phrase has no word or fewer than 3 characters.
C26_NonSpiceKeyByWordCount ==
    KeysExtracted =>
        \A i \in 1..Len(response.keys) :
            NamedSpices(i) = {} => response.keys[i] = ByWordCount(i)

(***************************************************************************)
(* C27  Keys of spices and herbs                                           *)
(***************************************************************************)
\* the qualifier words of the i-th text
QualifiersIn(i) == Range(CleanedWords(i)) \cap SpiceQualifiers

\* C27 as claimed: the key of an ingredient that names a listed spice or
\* herb is its qualifier words and the spice name; two mentions of one
\* spice have the same key exactly when they have the same qualifiers; and
\* an ingredient that names no listed spice or herb gets no spice key (its
\* key is the one of the word-count rule).
C27_SpiceKeyOnlyForSpices ==
    KeysExtracted =>
        /\ \A i \in 1..Len(response.keys) :
               NamedSpices(i) # {} =>
                   \E k \in NamedSpices(i) :
                       response.keys[i] =
                           Join(SelectSeq(CleanedWords(i),
                                    LAMBDA word : \/ word \in SpiceQualifiers
                                                  \/ word = SpiceHerbs[k]),
                                <<" ">>)
        /\ \A i, j \in 1..Len(response.keys) :
               NamedSpices(i) # {} /\ NamedSpices(i) = NamedSpices(j) =>
                   (response.keys[i] = response.keys[j]
                        <=> QualifiersIn(i) = QualifiersIn(j))
        /\ \A i \in 1..Len(response.keys) :
               NamedSpices(i) = {} => response.keys[i] = ByWordCount(i)

(***************************************************************************)
(* C28  What a lock request changes                                        *)
(***************************************************************************)
\* the step is an answer of lock_meal_plan_entries
LockAnswered == response'.op = "lock_meal_plan_entries"

\* entry j of the plan at position i is as the lock request leaves it
EntryAfterLock(i, j) ==
    LET before == mealplans[i].entries[j]
        after == mealplans'[i].entries[j]
    IN  /\ after.date = before.date
        /\ after.recipe_id = before.recipe_id
        /\ after.notes = before.notes
        /\ after.locked = IF before.date \in response'.request.entry_dates
                          THEN response'.request.locked
                          ELSE before.locked

\* C28: lock_meal_plan_entries sets the locked flag of the entries whose
\* date is in entry_dates and changes nothing else: date, recipe_id and
\* notes of every entry, the flag of the other entries, the number and the
\* order of the entries, the other fields of the plan, the other plans and
\* the recipes stay; for a missing plan it answers 404 and writes nothing.
C28_LockChangesOnlyFlags ==
    [][LockAnswered =>
          /\ recipes' = recipes
          /\ Len(mealplans') = Len(mealplans)
          /\ response'.status =
                 (IF HasPlanId(mealplans, response'.meal_plan_id)
                  THEN 200 ELSE 404)
          /\ response'.status = 404 => mealplans' = mealplans
          /\ \A i \in 1..Len(mealplans) :
                 IF mealplans[i].id # response'.meal_plan_id
                 THEN mealplans'[i] = mealplans[i]
                 ELSE /\ DOMAIN mealplans'[i] = DOMAIN mealplans[i]
                      /\ \A f \in DOMAIN mealplans[i] \ {"entries"} :
                             mealplans'[i][f] = mealplans[i][f]
                      /\ Len(mealplans'[i].entries)
                             = Len(mealplans[i].entries)
                      /\ \A j \in 1..Len(mealplans[i].entries) :
                             EntryAfterLock(i, j)]_vars

\* a lock request was answered for a stored plan: an entry of a named date
\* carries the requested flag next to an entry of another date that
\* carries the opposite flag and a recipe
C28_Witness ==
    /\ response.op = "lock_meal_plan_entries"
    /\ response.status = 200
    /\ \E i \in 1..Len(mealplans) :
           /\ mealplans[i].id = response.meal_plan_id
           /\ \E j, k \in 1..Len(mealplans[i].entries) :
                  /\ mealplans[i].entries[j].date \in response.request.entry_dates
                  /\ mealplans[i].entries[j].locked = response.request.locked
                  /\ mealplans[i].entries[j].recipe_id = "r1"
                  /\ mealplans[i].entries[k].date
                         \notin response.request.entry_dates
                  /\ mealplans[i].entries[k].locked # response.request.locked
                  /\ TruthyStr(mealplans[i].entries[k].recipe_id)

(***************************************************************************)
(* SpecRace: update_recipe and update_last_cooked of two requests whose    *)
(* reads and writes of the recipes container interleave.  Both read the    *)
(* document, change their copy and write the whole copy back with          *)
(* replace_item, without an etag condition.                                *)
(***************************************************************************)
\* the copy update_recipe holds after recipes.py:139-165
UpdatedDocument(existing, update_data) ==
    [f \in DOMAIN existing |->
        IF f \in DOMAIN update_data
        THEN IF f = "ingredients"
             THEN normalize_ingredients(update_data[f])
             ELSE update_data[f]
        ELSE IF f = "ingredients"
             THEN normalize_ingredients(existing[f])
             ELSE existing[f]]

\* container.replace_item(item=recipe_id, body=body)
replace_item(container, recipe_id, body) ==
    [i \in 1..Len(container) |->
        IF container[i].id = recipe_id THEN body ELSE container[i]]

\* the dates a saved plan gives to update_last_cooked
CookedDates == {98, 99}

\* recipes.py:134-165: update_recipe reads the document and changes its copy
ReadForUpdate(c, recipe_id, update_data) ==
    /\ calls[c].pc = "idle"
    /\ calls' = [calls EXCEPT ![c] =
                    IF HasRecipeId(recipes, recipe_id)
                    THEN [pc |-> "replace", op |-> "update_recipe",
                          recipe_id |-> recipe_id,
                          update_data |-> update_data,
                          body |-> UpdatedDocument(
                                       RecipeOf(recipes, recipe_id),
                                       update_data)]
                    ELSE [pc |-> "done", op |-> "update_recipe",
                          recipe_id |-> recipe_id, found |-> FALSE]]
    /\ UNCHANGED <<ai, recipes, mealplans, rng, returns, profile, issued, response>>

\* recipes.py:221-226: update_last_cooked reads the document and sets
\* last_cooked_at on its copy; a recipe that is not found is skipped
ReadForLastCooked(c, recipe_id, cooked_date) ==
    /\ calls[c].pc = "idle"
    /\ calls' = [calls EXCEPT ![c] =
                    IF HasRecipeId(recipes, recipe_id)
                    THEN [pc |-> "replace", op |-> "update_last_cooked",
                          recipe_id |-> recipe_id,
                          cooked_date |-> cooked_date,
                          body |-> [RecipeOf(recipes, recipe_id)
                                        EXCEPT !.last_cooked_at = cooked_date]]
                    ELSE [pc |-> "done", op |-> "update_last_cooked",
                          recipe_id |-> recipe_id, found |-> FALSE]]
    /\ UNCHANGED <<ai, recipes, mealplans, rng, returns, profile, issued, response>>

\* recipes.py:171-174 and 230-233: the copy is written back
Replace(c) ==
    /\ calls[c].pc = "replace"
    /\ recipes' = replace_item(recipes, calls[c].recipe_id, calls[c].body)
    /\ calls' = [calls EXCEPT ![c] = [@ EXCEPT !.pc = "done"] @@
                                     [found |-> TRUE]]
    /\ UNCHANGED <<ai, mealplans, rng, returns, profile, issued, response>>

InitRace ==
    /\ recipes \in {SubSeq(Shelf, 1, n) : n \in 1..Min(MaxCatalog, 2)}
    /\ mealplans = <<>>
    /\ rng = 0
    /\ calls = [c \in Callers |-> Idle]
    /\ returns = <<>>
    /\ profile = [staple_groceries |-> <<>>]
    /\ issued = 0
    /\ ai = AIOff
    /\ response = NoResponse

NextRace ==
    \/ \E c \in Callers, recipe_id \in RecipeIdsNamed(recipes),
          update_data \in RecipePatches :
           ReadForUpdate(c, recipe_id, update_data)
    \/ \E c \in Callers, recipe_id \in RecipeIdsNamed(recipes),
          cooked_date \in CookedDates :
           ReadForLastCooked(c, recipe_id, cooked_date)
    \/ \E c \in Callers : Replace(c)

SpecRace == InitRace /\ [][NextRace]_vars

(***************************************************************************)
(* C30  A recipe update next to a last-cooked touch                        *)
(***************************************************************************)
\* C30 as claimed: once an update_recipe and an update_last_cooked of the
\* same recipe have both completed, in any interleaving of their reads and
\* writes, the stored recipe has the fields of the update and the new
\* last_cooked_at.
C30_NoLostUpdate ==
    \A c, d \in Callers :
        /\ calls[c].pc = "done" /\ calls[c].op = "update_recipe"
        /\ calls[d].pc = "done" /\ calls[d].op = "update_last_cooked"
        /\ calls[c].found /\ calls[d].found
        /\ calls[c].recipe_id = calls[d].recipe_id
        => LET stored == RecipeOf(recipes, calls[c].recipe_id)
           IN  /\ \A f \in DOMAIN calls[c].update_data :
                      stored[f] = calls[c].update_data[f]
               /\ stored.last_cooked_at = calls[d].cooked_date

=============================================================================
